---------------------------- MODULE Spec2Model ----------------------------
(***************************************************************************)
(* Contact manager of NimbleSM (src/src/nimble_contact_manager.cc):        *)
(* mesh skinning, removal of partition-internal skin faces by a ring       *)
(* exchange, construction of the contact submodel and of the contact       *)
(* entities, and the per-step operations of the manager.                   *)
(*                                                                         *)
(* Arrays of the program are sequences; the program's 0-based index i is   *)
(* position i+1 of the sequence (operator At).  Coordinates are integers   *)
(* (multiples of 4), so that the barycenter of a quad face and the length  *)
(* of an axis-aligned edge are exact.                                      *)
(*                                                                         *)
(* A local of the program that is read more than once is bound once, as    *)
(* the element of a singleton set: The({e(x) : x \in {v}}) in an operator,  *)
(* \E x \in {v} : A(x) in an action.                                       *)
(***************************************************************************)
EXTENDS Integers, Sequences, FiniteSets, TLC

(***************************************************************************)
(* Bounds of the model.                                                    *)
(***************************************************************************)
\* ranks of the MPI job: 1..MaxRanks
MaxRanks == 2
\* hexahedra of the input mesh: 1..MaxElems
MaxElems == 3
\* displacement fields passed to the manager: seeds 1..MaxSeed
MaxSeed == 2
\* skin faces per list given to the submodel builder on its own: 0..MaxFaces
MaxFaces == 2
\* nodes given to the projection routines: up to MaxGap off the plane z = 0
MaxGap == 3

(***************************************************************************)
(* Program constants.                                                      *)
(***************************************************************************)
\* width of the C++ int that holds an entity id
IntBits == 32
\* num_node_per_face / num_nodes_in_face
NumNodesInFace == 4
\* entity_id = (elem + offset) << 5
ElemShift == 5
\* entity_id |= face_ordinal << 2
FaceShift == 2
\* std::numeric_limits<int>::max()
IntMax == 2147483647
\* std::numeric_limits<double>::max(), above every coordinate of the model
DoubleMax == 1073741824

TwoTo(n) == 2 ^ n

(***************************************************************************)
(* Generic helpers.                                                        *)
(***************************************************************************)
At(s, i) == s[i + 1]

Range(s) == {s[i] : i \in DOMAIN s}

\* the element of a singleton set
The(S) == CHOOSE x \in S : TRUE

SetMax(S) == CHOOSE x \in S : \A y \in S : y <= x

SetMin(S) == CHOOSE x \in S : \A y \in S : x <= y

RECURSIVE InsertSorted(_, _)
InsertSorted(s, x) ==
    IF s = <<>> THEN <<x>>
    ELSE IF x <= Head(s) THEN <<x>> \o s
    ELSE <<Head(s)>> \o InsertSorted(Tail(s), x)

\* std::sort on a vector<int>
RECURSIVE SortInts(_)
SortInts(s) ==
    IF s = <<>> THEN <<>> ELSE InsertSorted(SortInts(Tail(s)), Head(s))

\* operator< of std::vector<int> (the order of the keys of a std::map)
RECURSIVE LexLess(_, _)
LexLess(a, b) ==
    IF b = <<>> THEN FALSE
    ELSE IF a = <<>> THEN TRUE
    ELSE IF Head(a) < Head(b) THEN TRUE
    ELSE IF Head(b) < Head(a) THEN FALSE
    ELSE LexLess(Tail(a), Tail(b))

\* the keys of a std::map in iteration order
KeysInOrder(K) ==
    [i \in 1..Cardinality(K) |->
        CHOOSE k \in K : Cardinality({o \in K : LexLess(o, k)}) = i - 1]

\* the elements of a std::set<int> in iteration order
SetToSortedSeq(S) ==
    [i \in 1..Cardinality(S) |->
        CHOOSE x \in S : Cardinality({y \in S : y < x}) = i - 1]

Reverse(s) == [i \in 1..Len(s) |-> s[Len(s) + 1 - i]]

\* position (0-based) of the first occurrence of x in s
IndexOf(s, x) == SetMin({i \in 1..Len(s) : s[i] = x}) - 1

(***************************************************************************)
(* Arithmetic of the C++ int (IntBits wide, two's complement) that holds   *)
(* an entity id.  Values are kept as the signed int the program holds.     *)
(***************************************************************************)
\* x << n on an int: the bits shifted past the width are lost (the result of
\* the shift instruction; C++20 defines it so, and the compilers of the
\* earlier standards produce it too)
ShiftLeft(x, n) ==
    (((x + TwoTo(IntBits - n - 1)) % TwoTo(IntBits - n)) - TwoTo(IntBits - n - 1)) * TwoTo(n)

\* x | y on two's-complement ints (bit by bit, lowest bit first)
RECURSIVE BitOr(_, _)
BitOr(x, y) ==
    IF x = 0 THEN y
    ELSE IF y = 0 THEN x
    ELSE IF x = -1 \/ y = -1 THEN -1
    ELSE (IF (x % 2 = 1) \/ (y % 2 = 1) THEN 1 ELSE 0) + 2 * BitOr(x \div 2, y \div 2)

(***************************************************************************)
(* Input meshes.  A scenario is a bar of nelem cubes along x (or nelem     *)
(* coincident cubes, layout "stack": a malformed mesh), each cube in       *)
(* block 1 or 4 (the primary blocks), block 2 (the secondary block) or     *)
(* block 3 (not in contact) and owned by one rank.  Grid node              *)
(* g = 4*ix + iy + 2*iz is the node at (ix, iy, iz); its node global id    *)
(* is g.                                                                   *)
(***************************************************************************)
primary_block_ids == <<1, 4>>
secondary_block_ids == <<2>>
BlockIds == {1, 2, 3, 4}

\* the 8 corners of cube i of the bar, in the Exodus hex ordering
HexNodes(i) ==
    <<4*i, 4*i + 4, 4*i + 5, 4*i + 1, 4*i + 2, 4*i + 6, 4*i + 7, 4*i + 3>>

ElemGrid(sc, i) == IF sc.layout = "stack" THEN HexNodes(0) ELSE HexNodes(i - 1)

\* the largest node global id of the whole mesh
MaxGridNode(sc) == IF sc.layout = "stack" THEN 7 ELSE 4 * sc.nelem + 3

\* element global ids (0-based): consecutive from 0, or so large that
\* element id + offset needs more than IntBits - ElemShift bits
ElemGid(sc, i) ==
    IF sc.big
    THEN TwoTo(IntBits - ElemShift) - 1 - MaxGridNode(sc)
            + (i - 1) * TwoTo(IntBits - ElemShift)
    ELSE i - 1

ElemsOfRank(sc, r) == SetToSortedSeq({i \in 1..sc.nelem : sc.rankOf[i] = r})

GridNodesOfRank(sc, r) ==
    UNION {Range(ElemGrid(sc, i)) : i \in {j \in 1..sc.nelem : sc.rankOf[j] = r}}

\* local node numbering: ascending global id on even ranks, descending on odd
LocalNodes(sc, r) ==
    IF r % 2 = 0 THEN SetToSortedSeq(GridNodesOfRank(sc, r))
    ELSE Reverse(SetToSortedSeq(GridNodesOfRank(sc, r)))

\* cube i of the bar is 4 * (i + 1) long in x and 4 in y and z
GridCoord(g) ==
    <<4 * (((g \div 4) * ((g \div 4) + 1)) \div 2), 4 * (g % 2), 4 * ((g % 4) \div 2)>>

RanksHolding(sc, g) == {q \in 0..(sc.nranks - 1) : g \in GridNodesOfRank(sc, q)}

\* the elements of rank r that are in block b, their connectivity in local ids
BlockOfMesh(sc, b, es, nodes) ==
    [conn |-> [k \in 1..Len(es) |->
                 [c \in 1..8 |-> IndexOf(nodes, ElemGrid(sc, es[k])[c])]],
     elem_global_ids |-> [k \in 1..Len(es) |-> ElemGid(sc, es[k])]]

\* the local ids of the nodes that another rank holds too
PartitionBoundary(sc, nodes) ==
    SelectSeq([k \in 1..Len(nodes) |-> k - 1],
           LAMBDA l : Cardinality(RanksHolding(sc, nodes[l + 1])) > 1)

\* the GenesisMesh of rank r and the partition-boundary lists of its
\* VectorCommunicator
MeshOfRank(sc, r) ==
    The({The({[node_global_ids |-> nodes,
               coord |-> [k \in 1..Len(nodes) |-> GridCoord(nodes[k])],
               blocks |-> [b \in BlockIds |->
                             BlockOfMesh(sc, b,
                                 SelectSeq(ElemsOfRank(sc, r), LAMBDA i : sc.blockOf[i] = b),
                                 nodes)],
               partition_boundary_node_local_ids |-> pb,
               min_rank_containing_partition_boundary_nodes |->
                   [k \in 1..Len(pb) |-> SetMin(RanksHolding(sc, nodes[pb[k] + 1]))]] :
              pb \in {PartitionBoundary(sc, nodes)}}) :
         nodes \in {LocalNodes(sc, r)}})

\* every rank owns a contiguous, non-empty run of the elements
IsPartition(rankOf, n, N) ==
    /\ \A i \in 1..(n - 1) : rankOf[i] <= rankOf[i + 1]
    /\ \A q \in 0..(N - 1) : \E i \in 1..n : rankOf[i] = q

Scenarios ==
    {sc \in UNION {[nranks : {N}, nelem : {n}, layout : {"bar", "stack"},
                    big : BOOLEAN,
                    blockOf : [1..n -> BlockIds],
                    rankOf : [1..n -> 0..(N - 1)]] :
                   N \in 1..MaxRanks, n \in 1..MaxElems} :
        /\ IsPartition(sc.rankOf, sc.nelem, sc.nranks)
        /\ ~(sc.big /\ sc.layout = "stack")}

\* GenesisMesh::GetMaxNodeGlobalId
GetMaxNodeGlobalId(m) == SetMax(Range(m.node_global_ids))

(***************************************************************************)
(* ContactManager::SkinBlocks                                              *)
(***************************************************************************)
\* the corners of face 0..5 of a hex (Exodus node-ordering convention)
FaceTemplate ==
    << <<0, 1, 5, 4>>, <<1, 2, 6, 5>>, <<2, 3, 7, 6>>,
       <<0, 4, 7, 3>>, <<0, 3, 2, 1>>, <<4, 5, 6, 7>> >>

FaceNodes(conn_e, ord) ==
    [k \in 1..NumNodesInFace |-> At(conn_e, At(FaceTemplate, ord)[k])]

\* the (element, face) pairs of a block in the order the loops visit them, each
\* with its key (the sorted node list); the element id becomes 1-based
BlockCandidates(block) ==
    [k \in 1..(6 * Len(block.conn)) |->
        [key |-> SortInts(FaceNodes(block.conn[((k - 1) \div 6) + 1], (k - 1) % 6)),
         nodes |-> FaceNodes(block.conn[((k - 1) \div 6) + 1], (k - 1) % 6),
         elem_global_id |-> block.elem_global_ids[((k - 1) \div 6) + 1] + 1,
         ord |-> (k - 1) % 6]]

RECURSIVE Candidates(_, _, _)
Candidates(mesh, block_ids, k) ==
    IF k >= Len(block_ids) THEN <<>>
    ELSE BlockCandidates(mesh.blocks[At(block_ids, k)]) \o Candidates(mesh, block_ids, k + 1)

\* the value of the map faces at a key, after the loops: the count, then the
\* unsorted node list, the exodus element id and the face ordinal of the first
\* face found with the key
FaceValue(cands, same) ==
    <<Cardinality(same)>> \o cands[SetMin(same)].nodes
        \o <<cands[SetMin(same)].elem_global_id, cands[SetMin(same)].ord>>

\* the map faces after the loops
FacesMap(cands) ==
    [key \in {cands[i].key : i \in 1..Len(cands)} |->
        The({FaceValue(cands, same) : same \in {{i \in 1..Len(cands) : cands[i].key = key}}})]

\* the entity id of a skin face; the triangle ordinal is still 0
SkinEntityId(value, entity_id_offset) ==
    BitOr(BitOr(ShiftLeft(At(value, 5) + entity_id_offset, ElemShift),
                ShiftLeft(At(value, 6), FaceShift)),
          0)

\* fault: a face seen twice is emitted too
FaceCountCaseTwiceIsSkin(count) ==
    IF count = 1 \/ count = 2 THEN "skin" ELSE "abort"

\* fault: the branch that aborts is missing
FaceCountCaseNoAbort(count) ==
    IF count = 1 THEN "skin" ELSE "interior"

\* what is done with a face seen count times
FaceCountCase(count) ==
    IF count = 1 THEN "skin" ELSE IF count # 2 THEN "abort" ELSE "interior"

\* the loop over the map, in key order: the faces seen once are emitted; a
\* face seen neither once nor twice aborts the program
SkinOutput(faces, skin, entity_id_offset) ==
    IF \E k \in DOMAIN faces : FaceCountCase(faces[k][1]) = "abort"
    THEN [aborted |-> TRUE, skin_faces |-> <<>>, entity_ids |-> <<>>]
    ELSE [aborted |-> FALSE,
          skin_faces |-> [i \in 1..Len(skin) |->
                             SubSeq(faces[skin[i]], 2, Len(faces[skin[i]]) - 2)],
          entity_ids |-> [i \in 1..Len(skin) |->
                             SkinEntityId(faces[skin[i]], entity_id_offset)]]

SkinBlocks(mesh, block_ids, entity_id_offset) ==
    The({The({SkinOutput(faces, skin, entity_id_offset) :
              skin \in {SelectSeq(KeysInOrder(DOMAIN faces),
                                  LAMBDA k : FaceCountCase(faces[k][1]) = "skin")}}) :
         faces \in {The({FacesMap(cands) : cands \in {Candidates(mesh, block_ids, 0)}})}})

(***************************************************************************)
(* ContactManager::RemoveInternalSkinFaces: the local parts.               *)
(***************************************************************************)
\* fvec: the node global ids of a face, sorted
FaceGlobalIds(mesh, face) ==
    SortInts([ii \in 1..NumNodesInFace |->
                 IF ii <= Len(face) THEN At(mesh.node_global_ids, face[ii]) ELSE IntMax])

\* the fvec of every face of the list
FaceGlobalIdsOfAll(mesh, faces) ==
    [i \in 1..Len(faces) |-> FaceGlobalIds(mesh, faces[i])]

\* face_global_ids: the buffer sent to every other rank
FaceGlobalIdsBuffer(fvecs) ==
    [k \in 1..(NumNodesInFace * Len(fvecs)) |->
        fvecs[((k - 1) \div NumNodesInFace) + 1][((k - 1) % NumNodesInFace) + 1]]

\* faceList: sorted global ids -> iface (emplace keeps the first entry of a key)
FaceListOf(fvecs) ==
    [k \in Range(fvecs) |-> SetMin({i \in 1..Len(fvecs) : fvecs[i] = k}) - 1]

\* tmpList: face i_mpi_buff_face of a received buffer
BufferFace(mpi_buffer, i_mpi_buff_face) ==
    SubSeq(mpi_buffer, i_mpi_buff_face * NumNodesInFace + 1,
           (i_mpi_buff_face + 1) * NumNodesInFace)

\* the faces of a received buffer that are found in faceList
FoundFaces(faceList, mpi_buffer, mpi_buffer_num_faces) ==
    {i \in 0..(mpi_buffer_num_faces - 1) : BufferFace(mpi_buffer, i) \in DOMAIN faceList}

\* the loop over the faces of a received buffer: the local faces found in it are
\* marked in both hashes and counted
MarkFound(st, hit, num_found) ==
    [remove_face_hash |->
         [i \in DOMAIN st.remove_face_hash |-> st.remove_face_hash[i] \/ (i - 1) \in hit],
     remove_entity_ids_hash |->
         [i \in DOMAIN st.remove_entity_ids_hash |->
             st.remove_entity_ids_hash[i] \/ (i - 1) \in hit],
     iCountRemovals |-> st.iCountRemovals + num_found]

MarkRemovals(st, faceList, mpi_buffer, mpi_buffer_num_faces) ==
    The({The({MarkFound(st, hit, Cardinality(found)) :
              hit \in {{faceList[BufferFace(mpi_buffer, i)] : i \in found}}}) :
         found \in {FoundFaces(faceList, mpi_buffer, mpi_buffer_num_faces)}})

\* new_faces / new_entity_ids: the entries whose hash is not set, in order
Compact(list, hash) ==
    The({[k \in 1..Len(keep) |-> list[keep[k]]] :
         keep \in {SelectSeq([i \in 1..Len(list) |-> i], LAMBDA i : ~hash[i])}})

\* the ring: the ranks a rank sends to and receives from in round shift
Target(mpi_rank, shift, num_ranks) == (mpi_rank + shift) % num_ranks

\* fault: the receive names the rank the send goes to
SourceIsTarget(mpi_rank, shift, num_ranks) == (mpi_rank + shift) % num_ranks

Source(mpi_rank, shift, num_ranks) == (mpi_rank + num_ranks - shift) % num_ranks

\* fault: the ring stops one round early
MoreRoundsButLast(shift, num_ranks) == shift < num_ranks - 1

\* the rounds of the ring exchange
MoreRounds(shift, num_ranks) == shift < num_ranks

(***************************************************************************)
(* Geometry helpers of the submodel.  coord is a flat array of 3 values    *)
(* per submodel node.                                                      *)
(***************************************************************************)
RECURSIVE SumSeq(_)
SumSeq(s) == IF s = <<>> THEN 0 ELSE Head(s) + SumSeq(Tail(s))

\* sqrt, exact on the perfect squares the axis-aligned meshes produce
Sqrt(n) == CHOOSE k \in 0..n : k * k <= n /\ (k + 1) * (k + 1) > n

Coord3(coord, node_id) ==
    <<At(coord, 3 * node_id), At(coord, 3 * node_id + 1), At(coord, 3 * node_id + 2)>>

EdgeLengthSquare(coord, node_id_1, node_id_2) ==
    SumSeq([j \in 1..3 |->
              (Coord3(coord, node_id_2)[j] - Coord3(coord, node_id_1)[j])
                * (Coord3(coord, node_id_2)[j] - Coord3(coord, node_id_1)[j])])

\* node_id_2 of edge i of a face: the next node, the first one after the last
EdgeSecondNode(face, i) == IF i + 1 < Len(face) THEN At(face, i + 1) ELSE At(face, 0)

\* secondary faces: sqrt of the largest squared edge length
SecondaryCharacteristicLength(coord, face) ==
    Sqrt(SetMax({EdgeLengthSquare(coord, At(face, i), EdgeSecondNode(face, i)) :
                    i \in 0..(Len(face) - 1)}))

\* primary faces: the largest edge length
PrimaryCharacteristicLength(coord, face) ==
    SetMax({Sqrt(EdgeLengthSquare(coord, At(face, i), EdgeSecondNode(face, i))) :
               i \in 0..(Len(face) - 1)})

\* fault: the fourth node of the face is left out of the mean
FictitiousNodeOfThree(coord, face) ==
    [j \in 1..3 |-> SumSeq([i \in 1..3 |-> Coord3(coord, face[i])[j]]) \div 3]

\* the node at the barycenter of a face
FictitiousNode(coord, face) ==
    [j \in 1..3 |->
        SumSeq([i \in 1..Len(face) |-> Coord3(coord, face[i])[j]]) \div Len(face)]

(***************************************************************************)
(* ContactEntity (constructor calls of CreateContactNodesAndFaces, and     *)
(* SetCoordinates).                                                        *)
(***************************************************************************)
Zero3 == <<0, 0, 0>>

TriangleEntity(entity_id, index, model_coord, characteristic_length, node_id_1, node_id_2, node_ids_for_fictitious_node) ==
    [entity_type |-> "TRIANGLE",
     contact_entity_global_id |-> entity_id,
     local_id |-> index,
     coord_1 |-> model_coord[1], coord_2 |-> model_coord[2], coord_3 |-> model_coord[3],
     char_len |-> characteristic_length,
     node_id_1 |-> node_id_1, node_id_2 |-> node_id_2,
     node_ids_for_fictitious_node |-> node_ids_for_fictitious_node,
     force_1 |-> Zero3, force_2 |-> Zero3, force_3 |-> Zero3]

NodeEntity(entity_id, index, model_coord, characteristic_length, node_id) ==
    [entity_type |-> "NODE",
     contact_entity_global_id |-> entity_id,
     local_id |-> index,
     coord_1 |-> model_coord,
     char_len |-> characteristic_length,
     node_id |-> node_id,
     force_1 |-> Zero3]

\* ContactEntity::SetCoordinates: a node takes the coordinates of its node; a
\* triangle those of its two nodes and, for its third vertex, the mean of the
\* four nodes of its face
SetCoordinates(entity, coord) ==
    IF entity.entity_type = "NODE"
    THEN [entity EXCEPT !.coord_1 = Coord3(coord, entity.node_id)]
    ELSE [entity EXCEPT
             !.coord_1 = Coord3(coord, entity.node_id_1),
             !.coord_2 = Coord3(coord, entity.node_id_2),
             !.coord_3 = FictitiousNode(coord, entity.node_ids_for_fictitious_node)]

(***************************************************************************)
(* ContactManager::CreateContactNodesAndFaces                              *)
(***************************************************************************)
\* fault: the triangle ordinal is not put into the id
TriangleEntityIdWithoutOrdinal(skin_entity_id, triangle_ordinal) == skin_entity_id

\* the entity id of triangle triangle_ordinal of a skin face
TriangleEntityId(skin_entity_id, triangle_ordinal) ==
    BitOr(skin_entity_id, triangle_ordinal)

\* fault: only a face with too few nodes is refused
TooFewFaceNodes(face) == Len(face) < NumNodesInFace

\* the check on the number of nodes of a primary face
InvalidNumberOfFaceNodes(face) == Len(face) # NumNodesInFace

\* fault: the last stanza names node 3 twice among the nodes of the
\* fictitious node, and not node 0
FaceTriangleOfThreeContributors(coord, face, skin_entity_id, i_face, t) ==
    TriangleEntity(TriangleEntityId(skin_entity_id, t),
                   NumNodesInFace * i_face + t,
                   <<Coord3(coord, At(face, t)),
                     Coord3(coord, At(face, (t + 1) % NumNodesInFace)),
                     FictitiousNode(coord, face)>>,
                   PrimaryCharacteristicLength(coord, face),
                   At(face, t), At(face, (t + 1) % NumNodesInFace),
                   [i \in 1..NumNodesInFace |-> IF t = 3 /\ i = 1 THEN face[4] ELSE face[i]])

\* the stanza "triangle node_t, node_t+1, fictitious_node" of face i_face
FaceTriangle(coord, face, skin_entity_id, i_face, t) ==
    TriangleEntity(TriangleEntityId(skin_entity_id, t),
                   NumNodesInFace * i_face + t,
                   <<Coord3(coord, At(face, t)),
                     Coord3(coord, At(face, (t + 1) % NumNodesInFace)),
                     FictitiousNode(coord, face)>>,
                   PrimaryCharacteristicLength(coord, face),
                   At(face, t), At(face, (t + 1) % NumNodesInFace),
                   [i \in 1..NumNodesInFace |-> face[i]])

\* the loop over the primary faces: 4 triangles each, or abort
FacesToTriangles(coord, primary_skin_faces, primary_skin_entity_ids) ==
    IF \E i \in 1..Len(primary_skin_faces) : InvalidNumberOfFaceNodes(primary_skin_faces[i])
    THEN [aborted |-> TRUE, contact_faces |-> <<>>]
    ELSE [aborted |-> FALSE,
          contact_faces |->
              [k \in 1..(NumNodesInFace * Len(primary_skin_faces)) |->
                  FaceTriangle(coord,
                               At(primary_skin_faces, (k - 1) \div NumNodesInFace),
                               At(primary_skin_entity_ids, (k - 1) \div NumNodesInFace),
                               (k - 1) \div NumNodesInFace,
                               (k - 1) % NumNodesInFace)]]

\* the loop over the secondary nodes
SecondaryNodeEntities(coord, secondary_node_ids, secondary_node_entity_ids, secondary_node_char_lens) ==
    [k \in 1..Len(secondary_node_ids) |->
        NodeEntity(secondary_node_entity_ids[k], k - 1,
                   Coord3(coord, secondary_node_ids[k]),
                   secondary_node_char_lens[secondary_node_ids[k]],
                   secondary_node_ids[k])]

CreateContactNodesAndFaces(coord, primary_skin_faces, primary_skin_entity_ids, secondary_node_ids, secondary_node_entity_ids, secondary_node_char_lens) ==
    IF FacesToTriangles(coord, primary_skin_faces, primary_skin_entity_ids).aborted
    THEN [aborted |-> TRUE, contact_nodes |-> <<>>, contact_faces |-> <<>>]
    ELSE [aborted |-> FALSE,
          contact_nodes |-> SecondaryNodeEntities(coord, secondary_node_ids,
                                secondary_node_entity_ids, secondary_node_char_lens),
          contact_faces |->
              FacesToTriangles(coord, primary_skin_faces, primary_skin_entity_ids).contact_faces]

(***************************************************************************)
(* ContactManager::CreateContactEntities: the submodel and the secondary   *)
(* nodes (the part after the removal of the partition-internal faces).     *)
(***************************************************************************)
\* ghosted_node_local_ids: partition-boundary nodes owned by another rank
GhostedNodeLocalIds(mesh, mpi_rank) ==
    The({[k \in 1..Len(keep) |-> mesh.partition_boundary_node_local_ids[keep[k]]] :
         keep \in {SelectSeq([i \in 1..Len(mesh.partition_boundary_node_local_ids) |-> i],
                       LAMBDA i : mesh.min_rank_containing_partition_boundary_nodes[i]
                                     # mpi_rank)}})

\* fault: the set is ordered from the largest node to the smallest
SubmodelNodeIdsDescending(primary_skin_faces, secondary_skin_faces) ==
    Reverse(SetToSortedSeq(
        UNION ({Range(primary_skin_faces[i]) : i \in 1..Len(primary_skin_faces)}
               \cup {Range(secondary_skin_faces[i]) : i \in 1..Len(secondary_skin_faces)})))

\* node_ids_: the nodes of the faces, through a std::set
SubmodelNodeIds(primary_skin_faces, secondary_skin_faces) ==
    SetToSortedSeq(UNION ({Range(primary_skin_faces[i]) : i \in 1..Len(primary_skin_faces)}
                          \cup {Range(secondary_skin_faces[i]) : i \in 1..Len(secondary_skin_faces)}))

\* genesis_mesh_node_id_to_contact_submodel_id, applied to the faces
RenumberFaces(faces, node_ids) ==
    [f \in 1..Len(faces) |-> [k \in 1..Len(faces[f]) |-> IndexOf(node_ids, faces[f][k])]]

\* ghosted_contact_node_ids: the ghosted nodes that are in the submodel
GhostedContactNodeIds(ghosted_node_local_ids, node_ids) ==
    The({[k \in 1..Len(in) |-> IndexOf(node_ids, in[k])] :
         in \in {SelectSeq(ghosted_node_local_ids, LAMBDA g : g \in Range(node_ids))}})

\* model_coord_ and coord_: 3 values per submodel node, from the mesh
SubmodelCoord(mesh, node_ids) ==
    [k \in 1..(3 * Len(node_ids)) |->
        At(mesh.coord, At(node_ids, (k - 1) \div 3))[((k - 1) % 3) + 1]]

\* force_.resize(array_len, 0.0): entries already there keep their value
ResizeForce(force, array_len) ==
    [k \in 1..array_len |-> IF k <= Len(force) THEN force[k] ELSE 0]

\* fault: no node is taken as ghosted
IsGhostedNever(ghosted_contact_node_ids, node_id) == FALSE

\* whether a node of a secondary face is left out
IsGhosted(ghosted_contact_node_ids, node_id) == node_id \in Range(ghosted_contact_node_ids)

\* the visits of the nodes of one secondary face, each with the characteristic
\* length of the face
FaceVisits(coord, face) ==
    [k \in 1..Len(face) |->
        [node_id |-> face[k],
         characteristic_length |-> SecondaryCharacteristicLength(coord, face)]]

\* the (node, characteristic length) pairs in the order the loops over the
\* secondary faces and their nodes visit them
RECURSIVE SecondaryVisits(_, _, _)
SecondaryVisits(coord, secondary_skin_faces, i) ==
    IF i >= Len(secondary_skin_faces) THEN <<>>
    ELSE FaceVisits(coord, At(secondary_skin_faces, i))
             \o SecondaryVisits(coord, secondary_skin_faces, i + 1)

\* fault: the length of the first visit is never raised
KeptCharacteristicLengthOfFirstVisit(visits, node_id) ==
    visits[SetMin({j \in 1..Len(visits) : visits[j].node_id = node_id})].characteristic_length

\* the length kept for a node: that of the first visit, raised by every later
\* visit with a larger one
KeptCharacteristicLength(visits, node_id) ==
    SetMax({visits[k].characteristic_length :
               k \in {j \in 1..Len(visits) : visits[j].node_id = node_id}})

\* the visits at which a node is stored: it is not ghosted and was not seen before
FirstVisits(visits, ghosted_contact_node_ids) ==
    SelectSeq([k \in 1..Len(visits) |-> k],
              LAMBDA k : /\ ~IsGhosted(ghosted_contact_node_ids, visits[k].node_id)
                         /\ \A j \in 1..(k - 1) : visits[j].node_id # visits[k].node_id)

\* secondary_node_ids, secondary_node_entity_ids and secondary_node_char_lens
\* after the loops
SecondaryNodesOf(mesh, node_ids, visits, ids) ==
    [secondary_node_ids |-> ids,
     secondary_node_entity_ids |->
         [k \in 1..Len(ids) |-> At(mesh.node_global_ids, At(node_ids, ids[k])) + 1],
     secondary_node_char_lens |->
         [n \in Range(ids) |-> KeptCharacteristicLength(visits, n)]]

SecondaryNodes(mesh, node_ids, coord, ghosted_contact_node_ids, secondary_skin_faces) ==
    The({The({SecondaryNodesOf(mesh, node_ids, visits, ids) :
              ids \in {The({[k \in 1..Len(firsts) |-> visits[firsts[k]].node_id] :
                            firsts \in {FirstVisits(visits, ghosted_contact_node_ids)}})}}) :
         visits \in {SecondaryVisits(coord, secondary_skin_faces, 0)}})

(***************************************************************************)
(* State.  Every field of the manager and every local of                   *)
(* CreateContactEntities is a function of the rank.                        *)
(***************************************************************************)
VARIABLES
    num_ranks,                  \* MPI_Comm_size
    mesh,                       \* the GenesisMesh (and partition lists) of each rank
    pc,                         \* where each rank is in CreateContactEntities
    call,                       \* 1: RemoveInternalSkinFaces on the primary faces, 2: secondary
    max_node_global_id,
    contact_entity_id_offset,
    primary_skin_faces, primary_skin_entity_ids,
    secondary_skin_faces, secondary_skin_entity_ids,
    xchg,                       \* the locals of RemoveInternalSkinFaces
    chan,                       \* messages in flight, per (sender, receiver), in order
    node_ids_, model_coord_, coord_, force_,
    contact_nodes_, contact_faces_,
    penalty_parameter_,
    displacement,               \* the displacement array last passed in
    contact_force,              \* the caller's full-mesh force array
    last_op, result,            \* the last operation called on a manager and how it ended
    use_kokkos,                 \* built with NIMBLE_HAVE_KOKKOS and run with UseKokkos()
    device,                     \* the Kokkos views of each rank's manager
    proj,                       \* the arguments and the outputs of a projection call
    bounding_box,               \* the output arguments of the last BoundingBox call
    kernel,                     \* the Kokkos kernel in flight on each rank and its tasks
    command,                    \* the contact command parsed and the outputs of the parser
    contact_force_d             \* the device view of the caller's force array

vars ==
    <<num_ranks, mesh, pc, call, max_node_global_id, contact_entity_id_offset,
      primary_skin_faces, primary_skin_entity_ids, secondary_skin_faces,
      secondary_skin_entity_ids, xchg, chan, node_ids_, model_coord_, coord_, force_,
      contact_nodes_, contact_faces_, penalty_parameter_, displacement, contact_force,
      last_op, result, use_kokkos, device, proj,
      bounding_box, kernel, command, contact_force_d>>

stepVars ==
    <<penalty_parameter_, displacement, contact_force, last_op, result, use_kokkos, proj,
      bounding_box, kernel, command, contact_force_d>>

submodelVars ==
    <<node_ids_, model_coord_, coord_, force_, contact_nodes_, contact_faces_, device>>

Ranks == 0..(num_ranks - 1)

NoExchange ==
    [face_global_ids |-> <<>>, remove_face_hash |-> <<>>, remove_entity_ids_hash |-> <<>>,
     iCountRemovals |-> 0, shift |-> 0, recv_size |-> 0]

\* the Kokkos views of a manager before CreateContactEntities has sized them
NoDevice ==
    [node_ids_d_ |-> <<>>, model_coord_d_ |-> <<>>, coord_d_ |-> <<>>, force_d_ |-> <<>>,
     contact_nodes_h_ |-> <<>>, contact_faces_h_ |-> <<>>,
     contact_nodes_d_ |-> <<>>, contact_faces_d_ |-> <<>>]

\* no projection routine has been called
NoProjection == [called |-> "none"]

\* the caller's six doubles before BoundingBox has been called
NoBoundingBox ==
    [x_min |-> 0, x_max |-> 0, y_min |-> 0, y_max |-> 0, z_min |-> 0, z_max |-> 0]

\* no kernel is in flight
NoKernel == [name |-> "none", pending |-> {}]

\* ParseContactCommand has not been called
NoCommand == [called |-> FALSE]

\* the caller's force array before the manager has written to it
InitialContactForce(m) == [k \in 1..(3 * Len(m.node_global_ids)) |-> 1]

\* the state after ContactManager::ContactManager on every rank, before the
\* skin faces exist
Constructed(nranks, m) ==
    /\ num_ranks = nranks
    /\ mesh = m
    /\ call = [r \in DOMAIN m |-> 0]
    /\ max_node_global_id = [r \in DOMAIN m |-> 0]
    /\ contact_entity_id_offset = [r \in DOMAIN m |-> 0]
    /\ xchg = [r \in DOMAIN m |-> NoExchange]
    /\ chan = [p \in (DOMAIN m) \X (DOMAIN m) |-> <<>>]
    /\ node_ids_ = [r \in DOMAIN m |-> <<>>]
    /\ model_coord_ = [r \in DOMAIN m |-> <<>>]
    /\ coord_ = [r \in DOMAIN m |-> <<>>]
    /\ force_ = [r \in DOMAIN m |-> <<>>]
    /\ contact_nodes_ = [r \in DOMAIN m |-> <<>>]
    /\ contact_faces_ = [r \in DOMAIN m |-> <<>>]
    /\ penalty_parameter_ = [r \in DOMAIN m |-> 0]
    /\ displacement = [r \in DOMAIN m |-> <<>>]
    /\ contact_force = [r \in DOMAIN m |-> InitialContactForce(m[r])]
    /\ last_op = "ContactManager"
    /\ result = "ok"
    /\ device = [r \in DOMAIN m |-> NoDevice]
    /\ bounding_box = [r \in DOMAIN m |-> NoBoundingBox]
    /\ kernel = [r \in DOMAIN m |-> NoKernel]
    /\ contact_force_d = [r \in DOMAIN m |-> InitialContactForce(m[r])]

InitOf(sc) ==
    /\ \E m \in {[r \in 0..(sc.nranks - 1) |-> MeshOfRank(sc, r)]} :
          Constructed(sc.nranks, m)
    /\ pc = [r \in 0..(sc.nranks - 1) |-> "start"]
    /\ primary_skin_faces = [r \in 0..(sc.nranks - 1) |-> <<>>]
    /\ primary_skin_entity_ids = [r \in 0..(sc.nranks - 1) |-> <<>>]
    /\ secondary_skin_faces = [r \in 0..(sc.nranks - 1) |-> <<>>]
    /\ secondary_skin_entity_ids = [r \in 0..(sc.nranks - 1) |-> <<>>]

\* the runs with MPI are runs of the build without Kokkos
Init ==
    /\ \E sc \in Scenarios : InitOf(sc)
    /\ use_kokkos = FALSE
    /\ proj = NoProjection
    /\ command = NoCommand

(***************************************************************************)
(* CreateContactEntities with MPI, one action per stretch of code between  *)
(* two blocking communication calls.                                       *)
(***************************************************************************)
\* fault: the reduction takes the minimum (MPI_MIN)
AllreduceMin(local) == SetMin({local[q] : q \in DOMAIN local})

\* MPI_Allreduce(MPI_MAX) of mesh.GetMaxNodeGlobalId() over all ranks
AllreduceMax(local) == SetMax({local[q] : q \in DOMAIN local})

\* lines 217-222: every rank enters the collective; it completes for all at once
Allreduce ==
    /\ \A r \in Ranks : pc[r] = "start"
    /\ \E global \in {AllreduceMax([q \in Ranks |-> GetMaxNodeGlobalId(mesh[q])])} :
          max_node_global_id' = [r \in Ranks |-> global]
    /\ pc' = [r \in Ranks |-> "skin"]
    /\ UNCHANGED <<num_ranks, mesh, call, contact_entity_id_offset, primary_skin_faces,
                   primary_skin_entity_ids, secondary_skin_faces, secondary_skin_entity_ids,
                   xchg, chan>>
    /\ UNCHANGED submodelVars
    /\ UNCHANGED stepVars

\* int contact_entity_id_offset = max_node_global_id
EntityIdOffset(max_id) == max_id

\* the two calls of SkinBlocks; the second is not reached when the first aborts
SkinBoth(m, offset) ==
    The({[aborted |-> prim.aborted \/ sec.aborted,
          primary_skin_faces |-> prim.skin_faces,
          primary_skin_entity_ids |-> prim.entity_ids,
          secondary_skin_faces |-> sec.skin_faces,
          secondary_skin_entity_ids |-> sec.entity_ids] :
         <<prim, sec>> \in
            {The({<<p, IF p.aborted THEN p ELSE SkinBlocks(m, secondary_block_ids, offset)>> :
                  p \in {SkinBlocks(m, primary_block_ids, offset)}})}})

\* lines 228-233
Skin(r) ==
    /\ pc[r] = "skin"
    /\ \E offset \in {EntityIdOffset(max_node_global_id[r])} :
       \E skin \in {SkinBoth(mesh[r], offset)} :
          /\ contact_entity_id_offset' = [contact_entity_id_offset EXCEPT ![r] = offset]
          /\ primary_skin_faces' = [primary_skin_faces EXCEPT ![r] = skin.primary_skin_faces]
          /\ primary_skin_entity_ids' =
                 [primary_skin_entity_ids EXCEPT ![r] = skin.primary_skin_entity_ids]
          /\ secondary_skin_faces' =
                 [secondary_skin_faces EXCEPT ![r] = skin.secondary_skin_faces]
          /\ secondary_skin_entity_ids' =
                 [secondary_skin_entity_ids EXCEPT ![r] = skin.secondary_skin_entity_ids]
          /\ pc' = [pc EXCEPT ![r] = IF skin.aborted THEN "aborted" ELSE "xbegin"]
    /\ call' = [call EXCEPT ![r] = 1]
    /\ UNCHANGED <<num_ranks, mesh, max_node_global_id, xchg, chan>>
    /\ UNCHANGED submodelVars
    /\ UNCHANGED stepVars

(***************************************************************************)
(* RemoveInternalSkinFaces with MPI.  MPI_Sendrecv posts its send and      *)
(* completes when its receive does; messages between two ranks are         *)
(* received in the order sent (the receives name the source and accept     *)
(* any tag).                                                               *)
(***************************************************************************)
CurFaces(r) == IF call[r] = 1 THEN primary_skin_faces[r] ELSE secondary_skin_faces[r]

CurEntityIds(r) ==
    IF call[r] = 1 THEN primary_skin_entity_ids[r] ELSE secondary_skin_entity_ids[r]

SizeMessage(x) == [tag |-> x.shift, data |-> <<Len(x.face_global_ids)>>]

DataMessage(x) == [tag |-> x.shift, data |-> x.face_global_ids]

\* what arrives in a receive buffer of recv_size ints
Received(msg, recv_size) ==
    [i \in 1..recv_size |-> IF i <= Len(msg.data) THEN msg.data[i] ELSE 0]

\* lines 970-994: the locals before the first round
ExchangeLocals(m, faces, entity_ids) ==
    [face_global_ids |-> The({FaceGlobalIdsBuffer(fvecs) : fvecs \in {FaceGlobalIdsOfAll(m, faces)}}),
     remove_face_hash |-> [i \in 1..Len(faces) |-> FALSE],
     remove_entity_ids_hash |-> [i \in 1..Len(entity_ids) |-> FALSE],
     iCountRemovals |-> 0, shift |-> 1, recv_size |-> 0]

\* lines 1046-1063: the lists a call of RemoveInternalSkinFaces leaves
RemainingFaces(faces, x) ==
    IF x.iCountRemovals = 0 THEN faces ELSE Compact(faces, x.remove_face_hash)

\* fault: the entity ids are dropped from the front of the list, as many as
\* faces were removed
RemainingEntityIdsFromTheFront(entity_ids, x) ==
    SubSeq(entity_ids, x.iCountRemovals + 1, Len(entity_ids))

RemainingEntityIds(entity_ids, x) ==
    IF x.iCountRemovals = 0 THEN entity_ids ELSE Compact(entity_ids, x.remove_entity_ids_hash)

\* lines 1046-1063 and the return to CreateContactEntities
FinishExchange(r, x) ==
    /\ xchg' = [xchg EXCEPT ![r] = x]
    /\ IF call[r] = 1
       THEN /\ primary_skin_faces' =
                   [primary_skin_faces EXCEPT ![r] = RemainingFaces(@, x)]
            /\ primary_skin_entity_ids' =
                   [primary_skin_entity_ids EXCEPT ![r] = RemainingEntityIds(@, x)]
            /\ UNCHANGED <<secondary_skin_faces, secondary_skin_entity_ids>>
            /\ call' = [call EXCEPT ![r] = 2]
            /\ pc' = [pc EXCEPT ![r] = "xbegin"]
       ELSE /\ secondary_skin_faces' =
                   [secondary_skin_faces EXCEPT ![r] = RemainingFaces(@, x)]
            /\ secondary_skin_entity_ids' =
                   [secondary_skin_entity_ids EXCEPT ![r] = RemainingEntityIds(@, x)]
            /\ UNCHANGED <<primary_skin_faces, primary_skin_entity_ids>>
            /\ UNCHANGED call
            /\ pc' = [pc EXCEPT ![r] = "build"]

\* lines 970-998: the buffers, and the send of the first size handshake
XchgBegin(r) ==
    /\ pc[r] = "xbegin"
    /\ \E x \in {ExchangeLocals(mesh[r], CurFaces(r), CurEntityIds(r))} :
          IF MoreRounds(x.shift, num_ranks)
          THEN /\ xchg' = [xchg EXCEPT ![r] = x]
               /\ chan' = [chan EXCEPT ![<<r, Target(r, x.shift, num_ranks)>>] =
                               Append(@, SizeMessage(x))]
               /\ pc' = [pc EXCEPT ![r] = "xsize"]
               /\ UNCHANGED <<call, primary_skin_faces, primary_skin_entity_ids,
                              secondary_skin_faces, secondary_skin_entity_ids>>
          ELSE /\ FinishExchange(r, x)
               /\ UNCHANGED chan
    /\ UNCHANGED <<num_ranks, mesh, max_node_global_id, contact_entity_id_offset>>
    /\ UNCHANGED submodelVars
    /\ UNCHANGED stepVars

\* fault: the message taken is the one sent last
TakeLastAndSend(r, src, tgt, msg) ==
    [p \in DOMAIN chan |->
        IF p = <<src, r>> /\ p = <<r, tgt>> THEN Append(SubSeq(chan[p], 1, Len(chan[p]) - 1), msg)
        ELSE IF p = <<src, r>> THEN SubSeq(chan[p], 1, Len(chan[p]) - 1)
        ELSE IF p = <<r, tgt>> THEN Append(chan[p], msg)
        ELSE chan[p]]

\* chan after rank r has taken the first message from src and sent msg to tgt
TakeAndSend(r, src, tgt, msg) ==
    [p \in DOMAIN chan |->
        IF p = <<src, r>> /\ p = <<r, tgt>> THEN Append(Tail(chan[p]), msg)
        ELSE IF p = <<src, r>> THEN Tail(chan[p])
        ELSE IF p = <<r, tgt>> THEN Append(chan[p], msg)
        ELSE chan[p]]

\* lines 998-1013: the size handshake completes; the data Sendrecv posts its send
XchgRecvSize(r) ==
    /\ pc[r] = "xsize"
    /\ \E src \in {Source(r, xchg[r].shift, num_ranks)} :
          /\ chan[<<src, r>>] # <<>>
          /\ xchg' = [xchg EXCEPT ![r].recv_size = Head(chan[<<src, r>>]).data[1]]
          /\ chan' = TakeAndSend(r, src, Target(r, xchg[r].shift, num_ranks),
                                 DataMessage(xchg[r]))
    /\ pc' = [pc EXCEPT ![r] = "xdata"]
    /\ UNCHANGED <<num_ranks, mesh, call, max_node_global_id, contact_entity_id_offset,
                   primary_skin_faces, primary_skin_entity_ids, secondary_skin_faces,
                   secondary_skin_entity_ids>>
    /\ UNCHANGED submodelVars
    /\ UNCHANGED stepVars

\* lines 1013-1040: the locals after the received buffer has been searched
AfterRound(x0, m, faces, mpi_buffer) ==
    The({[x0 EXCEPT !.remove_face_hash = marked.remove_face_hash,
                    !.remove_entity_ids_hash = marked.remove_entity_ids_hash,
                    !.iCountRemovals = marked.iCountRemovals,
                    !.shift = x0.shift + 1] :
         marked \in {The({MarkRemovals(
                              [remove_face_hash |-> x0.remove_face_hash,
                               remove_entity_ids_hash |-> x0.remove_entity_ids_hash,
                               iCountRemovals |-> x0.iCountRemovals],
                              faceList, mpi_buffer, x0.recv_size \div NumNodesInFace) :
                          faceList \in {The({FaceListOf(fvecs) :
                                                fvecs \in {FaceGlobalIdsOfAll(m, faces)}})}})}})

\* lines 1013-1040: the data arrives, the matching local faces are marked, and the
\* next round starts or the lists are compacted
XchgRecvData(r) ==
    /\ pc[r] = "xdata"
    /\ \E src \in {Source(r, xchg[r].shift, num_ranks)} :
          /\ chan[<<src, r>>] # <<>>
          /\ \E mpi_buffer \in {Received(Head(chan[<<src, r>>]), xchg[r].recv_size)} :
             \E x \in {AfterRound(xchg[r], mesh[r], CurFaces(r), mpi_buffer)} :
                IF MoreRounds(x.shift, num_ranks)
                THEN /\ xchg' = [xchg EXCEPT ![r] = x]
                     /\ chan' = TakeAndSend(r, src, Target(r, x.shift, num_ranks),
                                            SizeMessage(x))
                     /\ pc' = [pc EXCEPT ![r] = "xsize"]
                     /\ UNCHANGED <<call, primary_skin_faces, primary_skin_entity_ids,
                                    secondary_skin_faces, secondary_skin_entity_ids>>
                ELSE /\ FinishExchange(r, x)
                     /\ chan' = [chan EXCEPT ![<<src, r>>] = Tail(@)]
    /\ UNCHANGED <<num_ranks, mesh, max_node_global_id, contact_entity_id_offset>>
    /\ UNCHANGED submodelVars
    /\ UNCHANGED stepVars

\* lines 359-400: the views of the submodel and of the entities, the entities
\* built once more into the host views and copied to the device
DeviceViews(node_ids, coord, ent) ==
    [node_ids_d_ |-> node_ids, model_coord_d_ |-> coord, coord_d_ |-> coord,
     force_d_ |-> [k \in 1..(3 * Len(node_ids)) |-> 0],
     contact_nodes_h_ |-> ent.contact_nodes, contact_faces_h_ |-> ent.contact_faces,
     contact_nodes_d_ |-> ent.contact_nodes, contact_faces_d_ |-> ent.contact_faces]

\* lines 239-400: the submodel, the secondary nodes and the contact entities,
\* from the skin faces that are left
CreateSubmodel(r, primary_faces, primary_entity_ids, secondary_faces) ==
    \E node_ids \in {SubmodelNodeIds(primary_faces, secondary_faces)} :
    \E primary \in {RenumberFaces(primary_faces, node_ids)} :
    \E secondary \in {RenumberFaces(secondary_faces, node_ids)} :
    \E ghosted \in {GhostedContactNodeIds(GhostedNodeLocalIds(mesh[r], r), node_ids)} :
    \E coord \in {SubmodelCoord(mesh[r], node_ids)} :
    \E sec \in {SecondaryNodes(mesh[r], node_ids, coord, ghosted, secondary)} :
    \E ent \in {CreateContactNodesAndFaces(coord, primary, primary_entity_ids,
                    sec.secondary_node_ids, sec.secondary_node_entity_ids,
                    sec.secondary_node_char_lens)} :
       /\ node_ids_' = [node_ids_ EXCEPT ![r] = node_ids]
       /\ model_coord_' = [model_coord_ EXCEPT ![r] = coord]
       /\ coord_' = [coord_ EXCEPT ![r] = coord]
       /\ force_' = [force_ EXCEPT ![r] = ResizeForce(@, 3 * Len(node_ids))]
       /\ primary_skin_faces' = [primary_skin_faces EXCEPT ![r] = primary]
       /\ secondary_skin_faces' = [secondary_skin_faces EXCEPT ![r] = secondary]
       /\ contact_nodes_' = [contact_nodes_ EXCEPT ![r] = ent.contact_nodes]
       /\ contact_faces_' = [contact_faces_ EXCEPT ![r] = ent.contact_faces]
       /\ device' = [device EXCEPT ![r] =
                         IF use_kokkos /\ ~ent.aborted
                         THEN DeviceViews(node_ids, coord, ent) ELSE @]
       /\ pc' = [pc EXCEPT ![r] = IF ent.aborted THEN "aborted" ELSE "done"]

Build(r) ==
    /\ pc[r] = "build"
    /\ CreateSubmodel(r, primary_skin_faces[r], primary_skin_entity_ids[r],
                      secondary_skin_faces[r])
    /\ UNCHANGED <<num_ranks, mesh, call, max_node_global_id, contact_entity_id_offset,
                   primary_skin_entity_ids, secondary_skin_entity_ids, xchg, chan>>
    /\ UNCHANGED stepVars

Next ==
    \/ Allreduce
    \/ \E r \in Ranks : Skin(r)
    \/ \E r \in Ranks : XchgBegin(r)
    \/ \E r \in Ranks : XchgRecvSize(r)
    \/ \E r \in Ranks : XchgRecvData(r)
    \/ \E r \in Ranks : Build(r)

Spec == Init /\ [][Next]_vars

(***************************************************************************)
(* CreateContactEntities of a serial run (one rank): the whole call is one *)
(* step, RemoveInternalSkinFaces has no round to make.                     *)
(***************************************************************************)
CreateContactEntities(r) ==
    /\ num_ranks = 1
    /\ pc[r] = "start"
    /\ \E global \in {AllreduceMax([q \in Ranks |-> GetMaxNodeGlobalId(mesh[q])])} :
       \E offset \in {EntityIdOffset(global)} :
       \E skin \in {SkinBoth(mesh[r], offset)} :
          /\ max_node_global_id' = [max_node_global_id EXCEPT ![r] = global]
          /\ contact_entity_id_offset' = [contact_entity_id_offset EXCEPT ![r] = offset]
          /\ primary_skin_entity_ids' =
                 [primary_skin_entity_ids EXCEPT ![r] = skin.primary_skin_entity_ids]
          /\ secondary_skin_entity_ids' =
                 [secondary_skin_entity_ids EXCEPT ![r] = skin.secondary_skin_entity_ids]
          /\ IF skin.aborted
             THEN /\ pc' = [pc EXCEPT ![r] = "aborted"]
                  /\ call' = [call EXCEPT ![r] = 1]
                  /\ UNCHANGED <<primary_skin_faces, secondary_skin_faces, xchg>>
                  /\ UNCHANGED submodelVars
             ELSE /\ call' = [call EXCEPT ![r] = 2]
                  /\ xchg' = [xchg EXCEPT ![r] =
                                 ExchangeLocals(mesh[r], skin.secondary_skin_faces,
                                                skin.secondary_skin_entity_ids)]
                  /\ CreateSubmodel(r, skin.primary_skin_faces,
                                    skin.primary_skin_entity_ids, skin.secondary_skin_faces)
    /\ last_op' = "CreateContactEntities"
    /\ result' = "ok"
    /\ UNCHANGED <<num_ranks, mesh, chan, penalty_parameter_, displacement, contact_force,
                   use_kokkos, proj, bounding_box, kernel, command, contact_force_d>>

(***************************************************************************)
(* The per-step operations of a manager.                                   *)
(***************************************************************************)
\* the penalty parameters a caller sets
PenaltyValues == {-1, 0, 1}

\* the displacement array of the whole mesh that a caller passes in
DisplacementField(m, seed) ==
    [k \in 1..(3 * Len(m.node_global_ids)) |-> (seed * k) % 5]

\* ContactManager::SetPenaltyParameter
SetPenaltyParameter(r, penalty_parameter) ==
    /\ pc[r] \in {"start", "done"}
    /\ penalty_parameter_' = [penalty_parameter_ EXCEPT ![r] = penalty_parameter]
    /\ last_op' = "SetPenaltyParameter"
    /\ result' = "ok"
    /\ UNCHANGED <<num_ranks, mesh, pc, call, max_node_global_id, contact_entity_id_offset,
                   primary_skin_faces, primary_skin_entity_ids, secondary_skin_faces,
                   secondary_skin_entity_ids, xchg, chan, displacement, contact_force,
                   use_kokkos, proj, bounding_box, kernel, command, contact_force_d>>
    /\ UNCHANGED submodelVars

\* fault: the displacement array indexed by the submodel index, not by node_ids_
DisplacedCoordByLocalIndex(model_coord, node_ids, d) ==
    [k \in 1..(3 * Len(node_ids)) |-> model_coord[k] + d[k]]

\* the first loop of ApplyDisplacements: coord_ after it
DisplacedCoord(model_coord, node_ids, d) ==
    [k \in 1..(3 * Len(node_ids)) |->
        model_coord[k] + At(d, 3 * At(node_ids, (k - 1) \div 3) + ((k - 1) % 3))]

\* the two loops that follow: every entity takes its coordinates from coord
EntitiesAt(entities, coord) ==
    [i \in 1..Len(entities) |-> SetCoordinates(entities[i], coord)]

\* ApplyDisplacements(DeviceVectorNodeView): the views after its three kernels
DeviceDisplaced(d, displacement_d) ==
    The({[d EXCEPT !.coord_d_ = coord,
                   !.contact_nodes_d_ = EntitiesAt(@, coord),
                   !.contact_faces_d_ = EntitiesAt(@, coord)] :
         coord \in {DisplacedCoord(d.model_coord_d_, d.node_ids_d_, displacement_d)}})

\* ContactManager::ApplyDisplacements, the overload of the run's mode
ApplyDisplacements(r) ==
    /\ pc[r] = "done"
    /\ \E seed \in 1..MaxSeed :
       \E d \in {DisplacementField(mesh[r], seed)} :
          /\ displacement' = [displacement EXCEPT ![r] = d]
          /\ IF use_kokkos
             THEN /\ device' = [device EXCEPT ![r] = DeviceDisplaced(@, d)]
                  /\ UNCHANGED <<coord_, contact_faces_, contact_nodes_>>
             ELSE \E coord \in {DisplacedCoord(model_coord_[r], node_ids_[r], d)} :
                     /\ coord_' = [coord_ EXCEPT ![r] = coord]
                     /\ contact_faces_' = [contact_faces_ EXCEPT ![r] = EntitiesAt(@, coord)]
                     /\ contact_nodes_' = [contact_nodes_ EXCEPT ![r] = EntitiesAt(@, coord)]
                     /\ UNCHANGED device
    /\ last_op' = "ApplyDisplacements"
    /\ result' = "ok"
    /\ UNCHANGED <<num_ranks, mesh, pc, call, max_node_global_id, contact_entity_id_offset,
                   primary_skin_faces, primary_skin_entity_ids, secondary_skin_faces,
                   secondary_skin_entity_ids, xchg, chan, penalty_parameter_, contact_force,
                   use_kokkos, proj, bounding_box, kernel, command, contact_force_d>>
    /\ UNCHANGED <<node_ids_, model_coord_, force_>>

\* fault: the output indexed by the submodel index, not by node_ids_
ForcesIntoByLocalIndex(contact_force_r, node_ids, force) ==
    [k \in 1..Len(contact_force_r) |->
        IF k <= 3 * Len(node_ids) THEN force[k] ELSE contact_force_r[k]]

\* ContactManager::GetForces: contact_force after the loop
ForcesInto(contact_force_r, node_ids, force) ==
    [k \in 1..Len(contact_force_r) |->
        IF \E i \in 1..Len(node_ids) : node_ids[i] = (k - 1) \div 3
        THEN At(force, 3 * IndexOf(node_ids, (k - 1) \div 3) + ((k - 1) % 3))
        ELSE contact_force_r[k]]

\* fault: a penalty parameter of zero is let through
PenaltyNegative(penalty_parameter) == penalty_parameter < 0

\* the check that opens ComputeContactForce
PenaltyInvalid(penalty_parameter) == penalty_parameter <= 0

\* ComputeContactForce(step, debug_output) of the contact backend: force_ after
\* it, zeroed and then holding the penalty forces of the pairs in contact
BackendForces(force, penalty_parameter) ==
    {[k \in 1..Len(force) |-> c * penalty_parameter] : c \in 0..1}

\* the force accumulators of an entity after the backend has evaluated the
\* contact: the forces of its vertices, the third vertex of a triangle taking
\* the mean of the four nodes of its face
AccumulatedForces(entity, force) ==
    IF entity.entity_type = "NODE"
    THEN [entity EXCEPT !.force_1 = Coord3(force, entity.node_id)]
    ELSE [entity EXCEPT
             !.force_1 = Coord3(force, entity.node_id_1),
             !.force_2 = Coord3(force, entity.node_id_2),
             !.force_3 = FictitiousNode(force, entity.node_ids_for_fictitious_node)]

EntitiesWithForces(entities, force) ==
    [i \in 1..Len(entities) |-> AccumulatedForces(entities[i], force)]

\* the model's contact_force node data, zeroed (Kokkos::deep_copy of 0.0)
ZeroedContactForce(contact_force_r) == [k \in 1..Len(contact_force_r) |-> 0]

\* lines 431-453: the views after ApplyDisplacements and the backend
DeviceComputed(d, displacement_d, force) ==
    The({[moved EXCEPT !.force_d_ = force,
                       !.contact_nodes_d_ = EntitiesWithForces(@, force),
                       !.contact_faces_d_ = EntitiesWithForces(@, force)] :
         moved \in {DeviceDisplaced(d, displacement_d)}})

\* ContactManager::ComputeContactForce(step, debug_output, contact_force)
ComputeContactForce(r) ==
    /\ pc[r] \in {"start", "done"}
    /\ \/ /\ PenaltyInvalid(penalty_parameter_[r])
          /\ result' = "invalid_argument"
          /\ UNCHANGED <<displacement, contact_force, contact_force_d>>
          /\ UNCHANGED submodelVars
       \/ /\ ~PenaltyInvalid(penalty_parameter_[r])
          /\ \E seed \in 1..MaxSeed :
             \E d \in {DisplacementField(mesh[r], seed)} :
                /\ displacement' = [displacement EXCEPT ![r] = d]
                /\ IF use_kokkos
                   THEN \E force \in BackendForces(device[r].force_d_, penalty_parameter_[r]) :
                           /\ device' = [device EXCEPT ![r] = DeviceComputed(@, d, force)]
                           /\ \E gathered \in {ForcesInto(ZeroedContactForce(contact_force_d[r]),
                                                          device[r].node_ids_d_, force)} :
                                 /\ contact_force_d' = [contact_force_d EXCEPT ![r] = gathered]
                                 /\ contact_force' = [contact_force EXCEPT ![r] = gathered]
                           /\ UNCHANGED <<coord_, contact_faces_, contact_nodes_, force_>>
                   ELSE \E coord \in {DisplacedCoord(model_coord_[r], node_ids_[r], d)} :
                        \E force \in BackendForces(force_[r], penalty_parameter_[r]) :
                           /\ coord_' = [coord_ EXCEPT ![r] = coord]
                           /\ contact_faces_' =
                                  [contact_faces_ EXCEPT ![r] =
                                      EntitiesWithForces(EntitiesAt(@, coord), force)]
                           /\ contact_nodes_' =
                                  [contact_nodes_ EXCEPT ![r] =
                                      EntitiesWithForces(EntitiesAt(@, coord), force)]
                           /\ force_' = [force_ EXCEPT ![r] = force]
                           /\ contact_force' =
                                  [contact_force EXCEPT ![r] = ForcesInto(@, node_ids_[r], force)]
                           /\ UNCHANGED <<device, contact_force_d>>
          /\ result' = "ok"
          /\ UNCHANGED <<node_ids_, model_coord_>>
    /\ last_op' = "ComputeContactForce"
    /\ UNCHANGED <<num_ranks, mesh, pc, call, max_node_global_id, contact_entity_id_offset,
                   primary_skin_faces, primary_skin_entity_ids, secondary_skin_faces,
                   secondary_skin_entity_ids, xchg, chan, penalty_parameter_,
                   use_kokkos, proj, bounding_box, kernel, command>>

\* for (auto& fval : force_) fval = 0.0, and Kokkos::deep_copy(force_d_, 0.0)
ZeroedForce(force) == [k \in 1..Len(force) |-> 0]

\* fault: the whole entity is cleared, its id included
ZeroedEntity(entity) ==
    IF entity.entity_type = "NODE"
    THEN [entity EXCEPT !.force_1 = Zero3, !.contact_entity_global_id = 0]
    ELSE [entity EXCEPT !.force_1 = Zero3, !.force_2 = Zero3, !.force_3 = Zero3,
                        !.contact_entity_global_id = 0]

\* the kernels "Zero Face Force" and "Zero Node Force"
ZeroedEntityForce(entity) ==
    IF entity.entity_type = "NODE"
    THEN [entity EXCEPT !.force_1 = Zero3]
    ELSE [entity EXCEPT !.force_1 = Zero3, !.force_2 = Zero3, !.force_3 = Zero3]

\* the part of ZeroContactForce under #ifdef NIMBLE_HAVE_KOKKOS
ZeroedDevice(d) ==
    [d EXCEPT !.force_d_ = ZeroedForce(@),
              !.contact_faces_d_ = [i \in 1..Len(@) |-> ZeroedEntityForce(@[i])],
              !.contact_nodes_d_ = [i \in 1..Len(@) |-> ZeroedEntityForce(@[i])]]

\* ContactManager::ZeroContactForce
ZeroContactForce(r) ==
    /\ pc[r] \in {"start", "done"}
    /\ force_' = [force_ EXCEPT ![r] = ZeroedForce(@)]
    /\ device' = [device EXCEPT ![r] = IF use_kokkos THEN ZeroedDevice(@) ELSE @]
    /\ last_op' = "ZeroContactForce"
    /\ result' = "ok"
    /\ UNCHANGED <<num_ranks, mesh, pc, call, max_node_global_id, contact_entity_id_offset,
                   primary_skin_faces, primary_skin_entity_ids, secondary_skin_faces,
                   secondary_skin_entity_ids, xchg, chan, penalty_parameter_, displacement,
                   contact_force, use_kokkos, proj, bounding_box, kernel, command, contact_force_d>>
    /\ UNCHANGED <<node_ids_, model_coord_, coord_, contact_nodes_, contact_faces_>>

\* ContactManager::GetForces, the overload of the run's mode, called on the
\* caller's force array (with Kokkos, on its device view)
GetForces(r) ==
    /\ pc[r] \in {"start", "done"}
    /\ IF use_kokkos
       THEN /\ contact_force_d' =
                   [contact_force_d EXCEPT ![r] =
                       ForcesInto(@, device[r].node_ids_d_, device[r].force_d_)]
            /\ UNCHANGED contact_force
       ELSE /\ contact_force' =
                   [contact_force EXCEPT ![r] = ForcesInto(@, node_ids_[r], force_[r])]
            /\ UNCHANGED contact_force_d
    /\ last_op' = "GetForces"
    /\ result' = "ok"
    /\ UNCHANGED <<num_ranks, mesh, pc, call, max_node_global_id, contact_entity_id_offset,
                   primary_skin_faces, primary_skin_entity_ids, secondary_skin_faces,
                   secondary_skin_entity_ids, xchg, chan, penalty_parameter_, displacement,
                   use_kokkos, proj, bounding_box, kernel, command>>
    /\ UNCHANGED submodelVars

\* the loop of BoundingBox from node i on: the six bounds after it
RECURSIVE BoundsFrom(_, _, _)
BoundsFrom(coord, i, box) ==
    IF i >= Len(coord) \div 3 THEN box
    ELSE BoundsFrom(coord, i + 1,
             [x_min |-> IF At(coord, 3 * i) < box.x_min THEN At(coord, 3 * i) ELSE box.x_min,
              x_max |-> IF At(coord, 3 * i) > box.x_max THEN At(coord, 3 * i) ELSE box.x_max,
              y_min |-> IF At(coord, 3 * i + 1) < box.y_min
                        THEN At(coord, 3 * i + 1) ELSE box.y_min,
              y_max |-> IF At(coord, 3 * i + 1) > box.y_max
                        THEN At(coord, 3 * i + 1) ELSE box.y_max,
              z_min |-> IF At(coord, 3 * i + 2) < box.z_min
                        THEN At(coord, 3 * i + 2) ELSE box.z_min,
              z_max |-> IF At(coord, 3 * i + 2) > box.z_max
                        THEN At(coord, 3 * i + 2) ELSE box.z_max])

\* x_min = big; x_max = -1.0 * big; ... before the loop
EmptyBox ==
    [x_min |-> DoubleMax, x_max |-> -DoubleMax, y_min |-> DoubleMax, y_max |-> -DoubleMax,
     z_min |-> DoubleMax, z_max |-> -DoubleMax]

\* ContactManager::BoundingBox: with Kokkos the atomic minima and maxima over
\* coord_d_, without it the loop over coord_
BoundingBox(r) ==
    /\ pc[r] \in {"start", "done"}
    /\ bounding_box' =
           [bounding_box EXCEPT ![r] =
               BoundsFrom(IF use_kokkos THEN device[r].coord_d_ ELSE coord_[r], 0, EmptyBox)]
    /\ last_op' = "BoundingBox"
    /\ result' = "ok"
    /\ UNCHANGED <<num_ranks, mesh, pc, call, max_node_global_id, contact_entity_id_offset,
                   primary_skin_faces, primary_skin_entity_ids, secondary_skin_faces,
                   secondary_skin_entity_ids, xchg, chan, penalty_parameter_, displacement,
                   contact_force, use_kokkos, proj, kernel, command, contact_force_d>>
    /\ UNCHANGED submodelVars

\* a serial run: one rank, a well-formed mesh with small element ids
StepScenarios == {sc \in Scenarios : sc.nranks = 1 /\ sc.layout = "bar" /\ ~sc.big}

\* the serial runs of the build without Kokkos
InitStep ==
    /\ \E sc \in StepScenarios : InitOf(sc)
    /\ use_kokkos = FALSE
    /\ proj = NoProjection
    /\ command = NoCommand

NextStep ==
    \/ \E r \in Ranks : CreateContactEntities(r)
    \/ \E r \in Ranks : \E p \in PenaltyValues : SetPenaltyParameter(r, p)
    \/ \E r \in Ranks : ApplyDisplacements(r)
    \/ \E r \in Ranks : ComputeContactForce(r)
    \/ \E r \in Ranks : ZeroContactForce(r)

SpecStep == InitStep /\ [][NextStep]_vars

\* the serial runs of both builds: without Kokkos, and with Kokkos and UseKokkos()
ModeScenarios == {sc \in StepScenarios : sc.nelem < MaxElems}

InitMode ==
    /\ \E sc \in ModeScenarios : InitOf(sc)
    /\ use_kokkos \in BOOLEAN
    /\ proj = NoProjection
    /\ command = NoCommand

SpecMode == InitMode /\ [][NextStep]_vars

\* serial runs of both builds on two hexahedra, the last in a primary block
OpsScenarios == {sc \in ModeScenarios : sc.nelem = MaxElems - 1 /\ sc.blockOf[sc.nelem] = 1}

InitOps ==
    /\ \E sc \in OpsScenarios : InitOf(sc)
    /\ use_kokkos \in BOOLEAN
    /\ proj = NoProjection
    /\ command = NoCommand

\* every per-step operation of the manager
NextOps ==
    \/ \E r \in Ranks : CreateContactEntities(r)
    \/ \E r \in Ranks : \E p \in PenaltyValues : SetPenaltyParameter(r, p)
    \/ \E r \in Ranks : ApplyDisplacements(r)
    \/ \E r \in Ranks : ComputeContactForce(r)
    \/ \E r \in Ranks : ZeroContactForce(r)
    \/ \E r \in Ranks : GetForces(r)
    \/ \E r \in Ranks : BoundingBox(r)

SpecOps == InitOps /\ [][NextOps]_vars

(***************************************************************************)
(* The submodel builder on its own: lines 239-357 of CreateContactEntities *)
(* applied to lists of skin faces of any node count, on the mesh of one    *)
(* cube.  SkinBlocks emits faces of 4 nodes only; faces of 3 or 5 nodes    *)
(* are the input that the test of line 1086 is there for.  An abort ends   *)
(* the process: the entities built before it are lost with it.             *)
(***************************************************************************)
OneCube ==
    [nranks |-> 1, nelem |-> 1, layout |-> "bar", big |-> FALSE,
     blockOf |-> <<1>>, rankOf |-> <<0>>]

\* faces over the local nodes of the cube: two quads, a triangle, a pentagon
FaceShapes == {<<0, 1, 3, 2>>, <<4, 5, 7, 6>>, <<0, 1, 3>>, <<4, 5, 7, 6, 2>>}

FaceLists == UNION {[1..n -> FaceShapes] : n \in 0..MaxFaces}

\* the entity ids of a list of faces: face i is face 0 of element i
EntityIdsFor(faces) == [i \in 1..Len(faces) |-> ShiftLeft(i + 7, ElemShift)]

InitBuild ==
    /\ Constructed(1, (0 :> MeshOfRank(OneCube, 0)))
    /\ pc = (0 :> "build")
    /\ use_kokkos = FALSE
    /\ proj = NoProjection
    /\ command = NoCommand
    /\ \E pf \in FaceLists :
          /\ primary_skin_faces = (0 :> pf)
          /\ primary_skin_entity_ids = (0 :> EntityIdsFor(pf))
    /\ \E sf \in FaceLists :
          /\ secondary_skin_faces = (0 :> sf)
          /\ secondary_skin_entity_ids = (0 :> EntityIdsFor(sf))

NextBuild == \E r \in Ranks : Build(r)

SpecBuild == InitBuild /\ [][NextBuild]_vars

(***************************************************************************)
(* The projection kernel.  A double is modelled by the rational number it  *)
(* stands for, <<numerator, denominator>> in lowest terms with a positive  *)
(* denominator; the square roots taken are those of perfect squares.       *)
(***************************************************************************)
Abs(i) == IF i < 0 THEN -i ELSE i

RECURSIVE GCD(_, _)
GCD(a, b) == IF b = 0 THEN a ELSE GCD(b, a % b)

Rat(n, d) ==
    The({<<(IF d < 0 THEN -n ELSE n) \div g, Abs(d) \div g>> : g \in {GCD(Abs(n), Abs(d))}})

RInt(i) == <<i, 1>>

RAdd(a, b) == Rat(a[1] * b[2] + b[1] * a[2], a[2] * b[2])

RSub(a, b) == Rat(a[1] * b[2] - b[1] * a[2], a[2] * b[2])

RMul(a, b) == Rat(a[1] * b[1], a[2] * b[2])

RDiv(a, b) == Rat(a[1] * b[2], a[2] * b[1])

RNeg(a) == <<-a[1], a[2]>>

RLess(a, b) == a[1] * b[2] < b[1] * a[2]

\* the integer square root of n, known to lie in lo..hi
RECURSIVE SqrtBetween(_, _, _)
SqrtBetween(n, lo, hi) ==
    IF lo >= hi THEN lo
    ELSE IF ((lo + hi + 1) \div 2) * ((lo + hi + 1) \div 2) <= n
         THEN SqrtBetween(n, (lo + hi + 1) \div 2, hi)
         ELSE SqrtBetween(n, lo, ((lo + hi + 1) \div 2) - 1)

\* std::sqrt
RSqrt(a) == <<SqrtBetween(a[1], 0, a[1]), SqrtBetween(a[2], 0, a[2])>>

\* a vector of three doubles from three integer coordinates
Vec(c) == [i \in 1..3 |-> RInt(c[i])]

VSub(a, b) == [i \in 1..3 |-> RSub(a[i], b[i])]

Dot(a, b) == RAdd(RAdd(RMul(a[1], b[1]), RMul(a[2], b[2])), RMul(a[3], b[3]))

\* CrossProduct(u, v, n)
CrossProduct(u, v) ==
    <<RSub(RMul(u[2], v[3]), RMul(u[3], v[2])),
      RSub(RMul(u[3], v[1]), RMul(u[1], v[3])),
      RSub(RMul(u[1], v[2]), RMul(u[2], v[1]))>>

\* alpha * p1 + beta * p2 + gamma * p3
Combination(alpha, beta, gamma, p1, p2, p3) ==
    [i \in 1..3 |-> RAdd(RAdd(RMul(alpha, p1[i]), RMul(beta, p2[i])), RMul(gamma, p3[i]))]

\* the normal n and the barycentric weights of the projection of p on the
\* plane of p1, p2, p3 (alpha1, alpha2, alpha3 are alpha, beta, gamma in
\* ClosestPointProjectionSingle)
BarycentricCoordinates(p, p1, p2, p3) ==
    The({The({[n |-> n, n_squared |-> n_squared,
               alpha1 |-> RSub(RSub(RInt(1), alpha2), alpha3),
               alpha2 |-> alpha2, alpha3 |-> alpha3] :
              <<alpha3, alpha2>> \in
                  {<<RDiv(Dot(CrossProduct(VSub(p2, p1), VSub(p, p1)), n), n_squared),
                     RDiv(Dot(CrossProduct(VSub(p, p1), VSub(p3, p1)), n), n_squared)>>}}) :
         <<n, n_squared>> \in
             {The({<<c, Dot(c, c)>> : c \in {CrossProduct(VSub(p2, p1), VSub(p3, p1))}})}})

\* a > -tol && a < 1.0 + tol
InRange(a, tol) == RLess(RNeg(tol), a) /\ RLess(a, RAdd(RInt(1), tol))

\* fault: a weight equal to tol counts as zero
IsZeroClosedAbove(a, tol) == RLess(RNeg(tol), a) /\ ~RLess(tol, a)

\* a > -tol && a < tol
IsZero(a, tol) == RLess(RNeg(tol), a) /\ RLess(a, tol)

\* fault: the test of the gap against the characteristic length is left out
InsideButNotThroughAnyDepth(gap, char_len) == RLess(gap, RInt(0))

\* (gap < 0.0) && (gap > -tri.char_len_)
InsideButNotThrough(gap, char_len) ==
    RLess(gap, RInt(0)) /\ RLess(RNeg(RInt(char_len)), gap)

\* the body of "if (a1 && a2 && a3)" in Projection
ProjectionInside(out, p, p1, p2, p3, b, char_len) ==
    The({The({[out EXCEPT
                  !.normal = normal,
                  !.gap = gap,
                  !.barycentric_coordinates = <<b.alpha1, b.alpha2, b.alpha3>>,
                  !.in = InsideButNotThrough(gap, char_len)] :
              gap \in {Dot(VSub(p, Combination(b.alpha1, b.alpha2, b.alpha3, p1, p2, p3)),
                           normal)}}) :
         normal \in {The({[i \in 1..3 |-> RMul(b.n[i], s)] :
                          s \in {RDiv(RInt(1), RSqrt(b.n_squared))}})}})

\* ContactManager::Projection: the output arguments after the call, out being
\* what they held before it
Projection(node, tri, out, tol) ==
    The({The({IF InRange(b.alpha1, tol) /\ InRange(b.alpha2, tol) /\ InRange(b.alpha3, tol)
              THEN ProjectionInside([out EXCEPT !.in = FALSE], pts[1], pts[2], pts[3],
                                    pts[4], b, tri.char_len)
              ELSE [out EXCEPT !.in = FALSE] :
              b \in {BarycentricCoordinates(pts[1], pts[2], pts[3], pts[4])}}) :
         pts \in {<<Vec(node.coord_1), Vec(tri.coord_1), Vec(tri.coord_2), Vec(tri.coord_3)>>}})

\* the body of "if (a1 && a2 && a3)" in SimpleClosestPointProjectionSingle
SimpleProjectionInside(out, p, p1, p2, p3, b) ==
    The({The({[out EXCEPT
                  !.projection_type = "FACE",
                  !.closest_point = xp,
                  !.normal = normal,
                  !.gap = Dot(VSub(p, xp), normal)] :
              normal \in {The({[i \in 1..3 |-> RMul(b.n[i], s)] :
                               s \in {RDiv(RInt(1), RSqrt(b.n_squared))}})}}) :
         xp \in {Combination(b.alpha1, b.alpha2, b.alpha3, p1, p2, p3)}})

\* fault: the closest point is written outside the triangle too
SimpleClosestPointProjectionSingleWritingOutside(node, tri, out, tol) ==
    The({The({IF InRange(b.alpha1, tol) /\ InRange(b.alpha2, tol) /\ InRange(b.alpha3, tol)
              THEN SimpleProjectionInside([out EXCEPT !.projection_type = "UNKNOWN"],
                                          pts[1], pts[2], pts[3], pts[4], b)
              ELSE [out EXCEPT !.projection_type = "UNKNOWN",
                               !.closest_point =
                                   Combination(b.alpha1, b.alpha2, b.alpha3,
                                               pts[2], pts[3], pts[4])] :
              b \in {BarycentricCoordinates(pts[1], pts[2], pts[3], pts[4])}}) :
         pts \in {<<Vec(node.coord_1), Vec(tri.coord_1), Vec(tri.coord_2), Vec(tri.coord_3)>>}})

\* ContactManager::SimpleClosestPointProjectionSingle: the output arguments
\* after the call, out being what they held before it
SimpleClosestPointProjectionSingle(node, tri, out, tol) ==
    The({The({IF InRange(b.alpha1, tol) /\ InRange(b.alpha2, tol) /\ InRange(b.alpha3, tol)
              THEN SimpleProjectionInside([out EXCEPT !.projection_type = "UNKNOWN"],
                                          pts[1], pts[2], pts[3], pts[4], b)
              ELSE [out EXCEPT !.projection_type = "UNKNOWN"] :
              b \in {BarycentricCoordinates(pts[1], pts[2], pts[3], pts[4])}}) :
         pts \in {<<Vec(node.coord_1), Vec(tri.coord_1), Vec(tri.coord_2), Vec(tri.coord_3)>>}})

\* the squared distance of two points
DistanceSquared(a, b) == Dot(VSub(a, b), VSub(a, b))

\* PointEdgeClosestPointFindT: the parameter of the foot of the perpendicular
\* from p on the line through p1 and p2
PointEdgeClosestPointFindT(p1, p2, p) ==
    RDiv(Dot(VSub(p, p1), VSub(p2, p1)), Dot(VSub(p2, p1), VSub(p2, p1)))

\* the point p1 + (p2 - p1) * t
PointOnEdge(p1, p2, t) == [i \in 1..3 |-> RAdd(p1[i], RMul(RSub(p2[i], p1[i]), t))]

\* PointEdgeClosestPointFindDistanceSquared
PointEdgeClosestPointFindDistanceSquared(p1, p2, p, t) ==
    DistanceSquared(PointOnEdge(p1, p2, t), p)

\* one candidate of the fallback: it replaces the best so far when its
\* squared distance is strictly smaller
Closer(best, min_case, distance_squared, point) ==
    IF RLess(distance_squared, best.min_distance_squared)
    THEN [min_case |-> min_case, min_distance_squared |-> distance_squared,
          closest_point |-> point]
    ELSE best

\* fault: the foot of the perpendicular is taken wherever it lies on the line
CloserOnLine(best, min_case, p1, p2, p) ==
    The({Closer(best, min_case, PointEdgeClosestPointFindDistanceSquared(p1, p2, p, t),
                PointOnEdge(p1, p2, t)) :
         t \in {PointEdgeClosestPointFindT(p1, p2, p)}})

\* an edge is a candidate when the foot of the perpendicular is inside it
CloserOnEdge(best, min_case, p1, p2, p) ==
    The({IF RLess(RInt(0), t) /\ RLess(t, RInt(1))
         THEN Closer(best, min_case, PointEdgeClosestPointFindDistanceSquared(p1, p2, p, t),
                     PointOnEdge(p1, p2, t))
         ELSE best :
         t \in {PointEdgeClosestPointFindT(p1, p2, p)}})

\* the three vertices, in their order
ClosestVertex(p, p1, p2, p3) ==
    Closer(Closer([min_case |-> 1, min_distance_squared |-> DistanceSquared(p1, p),
                   closest_point |-> p1],
                  2, DistanceSquared(p2, p), p2),
           3, DistanceSquared(p3, p), p3)

\* the else branch of ClosestPointProjectionSingle: the nearest of the three
\* vertices and the three edges, in this order
ClosestOnBoundary(p, p1, p2, p3) ==
    The({The({The({CloserOnEdge(c5, 6, p3, p1, p) :
                   c5 \in {CloserOnEdge(c4, 5, p2, p3, p)}}) :
              c4 \in {CloserOnEdge(c3, 4, p1, p2, p)}}) :
         c3 \in {ClosestVertex(p, p1, p2, p3)}})

\* the classification of a projection that is inside the triangle
ProjectionTypeInside(alpha, beta, gamma, tol) ==
    IF IsZero(alpha, tol) \/ IsZero(beta, tol) \/ IsZero(gamma, tol)
    THEN "NODE_OR_EDGE" ELSE "FACE"

\* ContactManager::ClosestPointProjectionSingle: closest_point and
\* projection_type after the call, the branch taken and, in the else branch,
\* the local min_case at the switch
ClosestPointProjectionSingle(node, tri, tol) ==
    The({The({IF InRange(b.alpha1, tol) /\ InRange(b.alpha2, tol) /\ InRange(b.alpha3, tol)
              THEN [inside |-> TRUE,
                    closest_point |->
                        Combination(b.alpha1, b.alpha2, b.alpha3, pts[2], pts[3], pts[4]),
                    projection_type |->
                        ProjectionTypeInside(b.alpha1, b.alpha2, b.alpha3, tol),
                    min_case |-> "undeclared"]
              ELSE The({[inside |-> FALSE,
                         closest_point |-> best.closest_point,
                         projection_type |-> "NODE_OR_EDGE",
                         min_case |-> best.min_case] :
                        best \in {ClosestOnBoundary(pts[1], pts[2], pts[3], pts[4])}}) :
              b \in {BarycentricCoordinates(pts[1], pts[2], pts[3], pts[4])}}) :
         pts \in {<<Vec(node.coord_1), Vec(tri.coord_1), Vec(tri.coord_2), Vec(tri.coord_3)>>}})

(***************************************************************************)
(* Calls of the projection routines on a node and a triangle.  The         *)
(* triangles have the normals +z, -z and (-3, 0, 4) / 5; the nodes are on  *)
(* a grid around them, up to MaxGap above and below the plane z = 0.       *)
(***************************************************************************)
ProjTriangleCoords ==
    {<< <<0, 0, 0>>, <<12, 0, 0>>, <<0, 12, 0>> >>,
     << <<0, 0, 0>>, <<0, 12, 0>>, <<12, 0, 0>> >>,
     << <<0, 0, 0>>, <<4, 0, 3>>, <<0, 5, 0>> >>}

ProjCharLens == {1, 2}

ProjTriangles ==
    {TriangleEntity(32, 0, c, char_len, 0, 1, <<0, 1, 2, 3>>) :
        c \in ProjTriangleCoords, char_len \in ProjCharLens}

ProjGrid == {-3, -1, 0, 3, 4, 6, 12}

ProjNodes ==
    {NodeEntity(1, 0, <<x, y, z>>, 1, 0) : x \in ProjGrid, y \in ProjGrid, z \in (-MaxGap)..MaxGap}

\* the tolerances: 1/4 is met exactly by weights of the grid, 1/100 by none
ProjTols == {<<1, 4>>, <<1, 100>>}

\* the output arguments as the caller declared them: nothing written yet (for
\* the doubles, the empty tuple)
Unwritten ==
    [in |-> "unwritten", gap |-> <<>>, normal |-> <<>>,
     barycentric_coordinates |-> <<>>,
     closest_point |-> <<>>, projection_type |-> "unwritten"]

InitProj ==
    /\ Constructed(1, (0 :> MeshOfRank(OneCube, 0)))
    /\ pc = (0 :> "start")
    /\ primary_skin_faces = (0 :> <<>>)
    /\ primary_skin_entity_ids = (0 :> <<>>)
    /\ secondary_skin_faces = (0 :> <<>>)
    /\ secondary_skin_entity_ids = (0 :> <<>>)
    /\ use_kokkos = FALSE
    /\ command = NoCommand
    /\ \E node \in ProjNodes : \E tri \in ProjTriangles : \E tol \in ProjTols :
          proj = [called |-> "none", node |-> node, tri |-> tri, tol |-> tol,
                  inside |-> "unwritten", min_case |-> "undeclared", out |-> Unwritten]

CallProjection ==
    /\ proj.called = "none"
    /\ proj' = [proj EXCEPT !.called = "Projection",
                            !.out = Projection(proj.node, proj.tri, @, proj.tol)]
    /\ UNCHANGED <<num_ranks, mesh, pc, call, max_node_global_id, contact_entity_id_offset,
                   primary_skin_faces, primary_skin_entity_ids, secondary_skin_faces,
                   secondary_skin_entity_ids, xchg, chan, penalty_parameter_, displacement,
                   contact_force, last_op, result, use_kokkos,
                   bounding_box, kernel, command, contact_force_d>>
    /\ UNCHANGED submodelVars

CallClosestPointProjectionSingle ==
    /\ proj.called = "none"
    /\ \E res \in {ClosestPointProjectionSingle(proj.node, proj.tri, proj.tol)} :
          proj' = [proj EXCEPT !.called = "ClosestPointProjectionSingle",
                               !.inside = res.inside,
                               !.min_case = res.min_case,
                               !.out.closest_point = res.closest_point,
                               !.out.projection_type = res.projection_type]
    /\ UNCHANGED <<num_ranks, mesh, pc, call, max_node_global_id, contact_entity_id_offset,
                   primary_skin_faces, primary_skin_entity_ids, secondary_skin_faces,
                   secondary_skin_entity_ids, xchg, chan, penalty_parameter_, displacement,
                   contact_force, last_op, result, use_kokkos,
                   bounding_box, kernel, command, contact_force_d>>
    /\ UNCHANGED submodelVars

CallSimpleClosestPointProjectionSingle ==
    /\ proj.called = "none"
    /\ proj' = [proj EXCEPT !.called = "SimpleClosestPointProjectionSingle",
                            !.out = SimpleClosestPointProjectionSingle(proj.node, proj.tri,
                                                                       @, proj.tol)]
    /\ UNCHANGED <<num_ranks, mesh, pc, call, max_node_global_id, contact_entity_id_offset,
                   primary_skin_faces, primary_skin_entity_ids, secondary_skin_faces,
                   secondary_skin_entity_ids, xchg, chan, penalty_parameter_, displacement,
                   contact_force, last_op, result, use_kokkos,
                   bounding_box, kernel, command, contact_force_d>>
    /\ UNCHANGED submodelVars

NextProj ==
    \/ CallProjection
    \/ CallClosestPointProjectionSingle
    \/ CallSimpleClosestPointProjectionSingle

SpecProj == InitProj /\ [][NextProj]_vars

(***************************************************************************)
(* ComputeContactForce(step, debug_output, contact_force) phase by phase,  *)
(* on every rank of a run with MPI: one action per call that the body      *)
(* makes.  pc[r] names the last phase that rank r has finished; "done" is  *)
(* the manager between two calls.                                          *)
(***************************************************************************)
\* entries of the caller's force array stay within -MaxForce..MaxForce: no
\* time step begins once one is beyond it
MaxForce == 3

meshVars ==
    <<num_ranks, mesh, call, max_node_global_id, contact_entity_id_offset,
      primary_skin_faces, primary_skin_entity_ids, secondary_skin_faces,
      secondary_skin_entity_ids, xchg, chan>>

callerVars == <<use_kokkos, proj, bounding_box, kernel, command>>

ForceWithinBounds == \A q \in Ranks : \A k \in DOMAIN contact_force[q] : contact_force[q][k] <= MaxForce

\* the input file gives one penalty parameter, set on every rank before the
\* contact entities are created
SetPenaltyParameterOnEveryRank(penalty_parameter) ==
    /\ \A r \in Ranks : pc[r] = "start"
    /\ penalty_parameter_' = [r \in Ranks |-> penalty_parameter]
    /\ last_op' = "SetPenaltyParameter"
    /\ result' = "ok"
    /\ UNCHANGED <<displacement, contact_force, contact_force_d>>
    /\ UNCHANGED <<meshVars, callerVars, pc>>
    /\ UNCHANGED submodelVars

\* lines 425-427: the call that throws
ThrowInvalidPenalty(r) ==
    /\ pc[r] = "done"
    /\ PenaltyInvalid(penalty_parameter_[r])
    /\ last_op' = "ComputeContactForce"
    /\ result' = "invalid_argument"
    /\ UNCHANGED <<penalty_parameter_, displacement, contact_force, contact_force_d>>
    /\ UNCHANGED <<meshVars, callerVars, pc>>
    /\ UNCHANGED submodelVars

\* lines 425-440 and 457-459: the penalty check passes, the device force
\* vector is zeroed (Kokkos) and ApplyDisplacements moves the submodel
EnterAndApplyDisplacements(r) ==
    /\ pc[r] = "done"
    /\ ~PenaltyInvalid(penalty_parameter_[r])
    /\ ForceWithinBounds
    /\ \E seed \in 1..MaxSeed :
       \E d \in {DisplacementField(mesh[r], seed)} :
          /\ displacement' = [displacement EXCEPT ![r] = d]
          /\ IF use_kokkos
             THEN /\ contact_force_d' = [contact_force_d EXCEPT ![r] = ZeroedContactForce(@)]
                  /\ device' = [device EXCEPT ![r] = DeviceDisplaced(@, d)]
                  /\ UNCHANGED <<coord_, contact_faces_, contact_nodes_>>
             ELSE \E coord \in {DisplacedCoord(model_coord_[r], node_ids_[r], d)} :
                     /\ coord_' = [coord_ EXCEPT ![r] = coord]
                     /\ contact_faces_' = [contact_faces_ EXCEPT ![r] = EntitiesAt(@, coord)]
                     /\ contact_nodes_' = [contact_nodes_ EXCEPT ![r] = EntitiesAt(@, coord)]
                     /\ UNCHANGED <<device, contact_force_d>>
    /\ pc' = [pc EXCEPT ![r] = "displacements_applied"]
    /\ last_op' = "ComputeContactForce"
    /\ UNCHANGED <<node_ids_, model_coord_, force_, penalty_parameter_, contact_force, result>>
    /\ UNCHANGED <<meshVars, callerVars>>

\* the views after ComputeContactForce(step, debug_output) of the backend
DeviceEvaluated(d, force) ==
    [d EXCEPT !.force_d_ = force,
              !.contact_nodes_d_ = EntitiesWithForces(@, force),
              !.contact_faces_d_ = EntitiesWithForces(@, force)]

\* lines 442 and 461: ComputeContactForce(step, debug_output)
EvaluateContact(r) ==
    /\ pc[r] = "displacements_applied"
    /\ IF use_kokkos
       THEN /\ \E force \in BackendForces(device[r].force_d_, penalty_parameter_[r]) :
                  device' = [device EXCEPT ![r] = DeviceEvaluated(@, force)]
            /\ UNCHANGED <<force_, contact_faces_, contact_nodes_>>
       ELSE /\ \E force \in BackendForces(force_[r], penalty_parameter_[r]) :
                  /\ force_' = [force_ EXCEPT ![r] = force]
                  /\ contact_faces_' = [contact_faces_ EXCEPT ![r] = EntitiesWithForces(@, force)]
                  /\ contact_nodes_' = [contact_nodes_ EXCEPT ![r] = EntitiesWithForces(@, force)]
            /\ UNCHANGED device
    /\ pc' = [pc EXCEPT ![r] = "forces_computed"]
    /\ UNCHANGED <<node_ids_, model_coord_, coord_>>
    /\ UNCHANGED <<penalty_parameter_, displacement, contact_force, contact_force_d, last_op, result>>
    /\ UNCHANGED <<meshVars, callerVars>>

\* lines 444 and 463: GetForces(contact_force_d), GetForces(contact_force.data())
GatherForces(r) ==
    /\ pc[r] = "forces_computed"
    /\ IF use_kokkos
       THEN /\ contact_force_d' = [contact_force_d EXCEPT ![r] = ForcesInto(@, device[r].node_ids_d_, device[r].force_d_)]
            /\ UNCHANGED contact_force
       ELSE /\ contact_force' = [contact_force EXCEPT ![r] = ForcesInto(@, node_ids_[r], force_[r])]
            /\ UNCHANGED contact_force_d
    /\ pc' = [pc EXCEPT ![r] = "gathered"]
    /\ UNCHANGED <<penalty_parameter_, displacement, last_op, result>>
    /\ UNCHANGED <<meshVars, callerVars>>
    /\ UNCHANGED submodelVars

\* lines 446-447: Kokkos::deep_copy(contact_force_h, contact_force_d)
CopyBackToHost(r) ==
    /\ use_kokkos
    /\ pc[r] = "gathered"
    /\ contact_force' = [contact_force EXCEPT ![r] = contact_force_d[r]]
    /\ pc' = [pc EXCEPT ![r] = "copied_back"]
    /\ UNCHANGED <<penalty_parameter_, displacement, contact_force_d, last_op, result>>
    /\ UNCHANGED <<meshVars, callerVars>>
    /\ UNCHANGED submodelVars

\* fault: the reduction runs on the host vector right after the gather
ReductionAfterGather == "gathered"

\* the phase after which a rank enters the reduction or returns
BeforeReduction == IF use_kokkos THEN "copied_back" ELSE "gathered"

\* component c of mesh node g summed over the ranks 0..q that hold the node
RECURSIVE SumOverRanks(_, _, _, _, _)
SumOverRanks(cf, m, g, c, q) ==
    IF q < 0 THEN 0
    ELSE (IF g \in Range(m[q].node_global_ids)
          THEN At(cf[q], 3 * IndexOf(m[q].node_global_ids, g) + c) ELSE 0)
         + SumOverRanks(cf, m, g, c, q - 1)

\* VectorCommunicator::VectorReduction(3, contact_force) on every rank: each
\* node shared with other ranks gets the sum of the ranks' values
Reduced(cf, m) ==
    [r \in DOMAIN cf |->
        [k \in 1..Len(cf[r]) |->
            SumOverRanks(cf, m, At(m[r].node_global_ids, (k - 1) \div 3), (k - 1) % 3,
                         Cardinality(DOMAIN cf) - 1)]]

\* lines 448-453 and 464-469: every rank enters the reduction; it completes
\* for all at once and the calls return
VectorReduction ==
    /\ num_ranks > 1
    /\ \A r \in Ranks : pc[r] = BeforeReduction
    /\ contact_force' = Reduced(contact_force, mesh)
    /\ pc' = [r \in Ranks |-> "done"]
    /\ result' = "ok"
    /\ UNCHANGED <<penalty_parameter_, displacement, contact_force_d, last_op>>
    /\ UNCHANGED <<meshVars, callerVars>>
    /\ UNCHANGED submodelVars

\* lines 453 and 469 of a run on one rank: nothing is left to reduce
ReturnToCaller(r) ==
    /\ num_ranks = 1
    /\ pc[r] = BeforeReduction
    /\ pc' = [pc EXCEPT ![r] = "done"]
    /\ result' = "ok"
    /\ UNCHANGED <<penalty_parameter_, displacement, contact_force, contact_force_d, last_op>>
    /\ UNCHANGED <<meshVars, callerVars>>
    /\ UNCHANGED submodelVars

\* bars of two hexahedra, the first in a primary block and the second in the
\* secondary block, on one rank or one per rank
PhaseScenarios ==
    {sc \in Scenarios : /\ sc.layout = "bar" /\ ~sc.big /\ sc.nelem = MaxElems - 1
                        /\ sc.blockOf[1] = 1 /\ sc.blockOf[2] = 2}

InitPhase ==
    /\ \E sc \in PhaseScenarios : InitOf(sc)
    /\ use_kokkos \in BOOLEAN
    /\ proj = NoProjection
    /\ command = NoCommand

\* what rank r does on its own
StepOfRank(r) ==
    \/ Skin(r)
    \/ XchgBegin(r)
    \/ XchgRecvSize(r)
    \/ XchgRecvData(r)
    \/ Build(r)
    \/ ThrowInvalidPenalty(r)
    \/ EnterAndApplyDisplacements(r)
    \/ EvaluateContact(r)
    \/ GatherForces(r)
    \/ CopyBackToHost(r)
    \/ ReturnToCaller(r)

NextPhase ==
    \/ \E p \in PenaltyValues : SetPenaltyParameterOnEveryRank(p)
    \/ Allreduce
    \/ \E r \in Ranks : StepOfRank(r)
    \/ VectorReduction

SpecPhase == InitPhase /\ [][NextPhase]_vars

\* the steps of Skin(r) and of Build(r) as pc shows them: the rank returns
\* from SkinBlocks, and from the submodel builder
SkinReturns(r) ==
    /\ pc[r] = "skin"
    /\ \E to \in {"xbegin", "aborted"} : pc' = [pc EXCEPT ![r] = to]

BuildReturns(r) ==
    /\ pc[r] = "build"
    /\ \E to \in {"done", "aborted"} : pc' = [pc EXCEPT ![r] = to]

\* the straight-line code of a rank between two blocking calls runs to its end
RankRuns(r) ==
    /\ WF_pc(r \in Ranks /\ SkinReturns(r))
    /\ WF_vars(r \in Ranks /\ XchgBegin(r))
    /\ WF_pc(r \in Ranks /\ BuildReturns(r))
    /\ WF_vars(r \in Ranks /\ EnterAndApplyDisplacements(r))
    /\ WF_vars(r \in Ranks /\ EvaluateContact(r))
    /\ WF_vars(r \in Ranks /\ GatherForces(r))
    /\ WF_vars(r \in Ranks /\ CopyBackToHost(r))
    /\ WF_vars(r \in Ranks /\ ReturnToCaller(r))

\* a blocking receive completes once its message is there, and a collective
\* once every rank has entered it
MessagesArrive(r) ==
    /\ WF_vars(r \in Ranks /\ XchgRecvSize(r))
    /\ WF_vars(r \in Ranks /\ XchgRecvData(r))

PhaseFairness ==
    /\ WF_vars(Allreduce)
    /\ WF_vars(VectorReduction)
    /\ \A r \in 0..(MaxRanks - 1) : RankRuns(r) /\ MessagesArrive(r)

\* the runs in which every rank keeps running: each rank calls
\* ComputeContactForce once per time step, for ever
SpecPhaseLive == InitPhase /\ [][NextPhase]_vars /\ PhaseFairness

(***************************************************************************)
(* The two calls of RemoveInternalSkinFaces on rings of 1..RingRanks       *)
(* ranks, one hexahedron per rank, up to the return of the second call.    *)
(***************************************************************************)
RingRanks == 3

\* bars of one hexahedron per rank, the first in a primary block; on the
\* largest ring the others are in a primary, the secondary or no contact
\* block, on the smaller rings in the same block as the first
RingScenarios ==
    UNION {[nranks : {N}, nelem : {N}, layout : {"bar"}, big : {FALSE},
            blockOf : IF N < RingRanks THEN {[i \in 1..N |-> 1]}
                      ELSE {b \in [1..N -> {1, 2, 3}] : b[1] = 1},
            rankOf : {[i \in 1..N |-> i - 1]}] : N \in 1..RingRanks}

InitRing ==
    /\ \E sc \in RingScenarios : InitOf(sc)
    /\ use_kokkos = FALSE
    /\ proj = NoProjection
    /\ command = NoCommand

NextRing ==
    \/ Allreduce
    \/ \E r \in Ranks : Skin(r)
    \/ \E r \in Ranks : XchgBegin(r)
    \/ \E r \in Ranks : XchgRecvSize(r)
    \/ \E r \in Ranks : XchgRecvData(r)

SpecRing == InitRing /\ [][NextRing]_vars

\* every rank runs its code up to the next blocking call, a blocking receive
\* completes once its message is there, and the collective once all are in
RingFairness ==
    /\ WF_vars(Allreduce)
    /\ \A r \in 0..(RingRanks - 1) :
          /\ WF_pc(r \in Ranks /\ SkinReturns(r))
          /\ WF_vars(r \in Ranks /\ XchgBegin(r))
          /\ WF_vars(r \in Ranks /\ XchgRecvSize(r))
          /\ WF_vars(r \in Ranks /\ XchgRecvData(r))

SpecRingLive == InitRing /\ [][NextRing]_vars /\ RingFairness

(***************************************************************************)
(* ParseContactCommand.  The command is a std::stringstream over tokens    *)
(* separated by white space; the stream is the number of tokens read and   *)
(* its eofbit and failbit.                                                 *)
(***************************************************************************)
\* tokens of a command: 0..MaxTokens
MaxTokens == 6

Words == {"primary_blocks", "secondary_blocks", "penalty_parameter", "block_1", "2"}

\* the command with the deprecated spelling of the keys
Deprecated(word) ==
    CASE word = "primary_blocks" -> "master_blocks"
      [] word = "secondary_blocks" -> "slave_blocks"
      [] OTHER -> word

\* a token as operator>>(double&) converts it: not a number gives 0
AsDouble(token) == IF token = "2" THEN 2 ELSE 0

IsNumber(token) == token = "2"

NewStream == [pos |-> 0, eofbit |-> FALSE, failbit |-> FALSE]

\* ss.good()
Good(ss) == ~ss.eofbit /\ ~ss.failbit

\* ss >> temp for a std::string: with the stream not good, or with nothing
\* but white space left, temp keeps its value and failbit is set; a token
\* that ends at the end of the command sets eofbit
ExtractString(tokens, trailing_space, ss, temp) ==
    IF ~Good(ss)
    THEN [ss |-> [ss EXCEPT !.failbit = TRUE], value |-> temp]
    ELSE IF ss.pos = Len(tokens)
    THEN [ss |-> [ss EXCEPT !.eofbit = TRUE, !.failbit = TRUE], value |-> temp]
    ELSE [ss |-> [ss EXCEPT !.pos = @ + 1,
                            !.eofbit = (ss.pos + 1 = Len(tokens)) /\ ~trailing_space],
          value |-> tokens[ss.pos + 1]]

\* ss >> penalty_parameter
ExtractDouble(tokens, trailing_space, ss, value) ==
    IF ~Good(ss)
    THEN [ss |-> [ss EXCEPT !.failbit = TRUE], value |-> value]
    ELSE IF ss.pos = Len(tokens)
    THEN [ss |-> [ss EXCEPT !.eofbit = TRUE, !.failbit = TRUE], value |-> value]
    ELSE [ss |-> [ss EXCEPT !.pos = @ + 1,
                            !.eofbit = (ss.pos + 1 = Len(tokens)) /\ ~trailing_space,
                            !.failbit = ~IsNumber(tokens[ss.pos + 1])],
          value |-> AsDouble(tokens[ss.pos + 1])]

\* lines 126-135 and 143-152: while (ss.good() && !found) { ss >> temp; ... }
RECURSIVE ReadNames(_, _, _, _, _)
ReadNames(tokens, trailing_space, ss, keys, names) ==
    IF ~Good(ss) THEN [ss |-> ss, found |-> FALSE, names |-> names]
    ELSE The({IF e.value \in keys THEN [ss |-> e.ss, found |-> TRUE, names |-> names]
              ELSE ReadNames(tokens, trailing_space, e.ss, keys, Append(names, e.value)) :
              e \in {ExtractString(tokens, trailing_space, ss, "")}})

Outputs(thrown, primary_block_names, secondary_block_names, penalty_parameter) ==
    [thrown |-> thrown, primary_block_names |-> primary_block_names,
     secondary_block_names |-> secondary_block_names, penalty_parameter |-> penalty_parameter]

\* ParseContactCommand(command, primary_block_names, secondary_block_names,
\* penalty_parameter): whether it throws, and the output arguments after it
ParseContactCommand(tokens, trailing_space, primary_block_names, secondary_block_names, penalty_parameter) ==
    The({IF key.value \notin {"primary_blocks", "master_blocks"}
         THEN Outputs(TRUE, primary_block_names, secondary_block_names, penalty_parameter)
         ELSE The({IF ~prim.found
                   THEN Outputs(TRUE, prim.names, secondary_block_names, penalty_parameter)
                   ELSE The({IF ~sec.found
                             THEN Outputs(TRUE, prim.names, sec.names, penalty_parameter)
                             ELSE Outputs(FALSE, prim.names, sec.names,
                                          ExtractDouble(tokens, trailing_space, sec.ss,
                                                        penalty_parameter).value) :
                             sec \in {ReadNames(tokens, trailing_space, prim.ss,
                                                {"penalty_parameter"}, secondary_block_names)}}) :
                   prim \in {ReadNames(tokens, trailing_space, key.ss,
                                       {"secondary_blocks", "slave_blocks"},
                                       primary_block_names)}}) :
         key \in {ExtractString(tokens, trailing_space, NewStream, "")}})

\* the commands given to the parser: up to max_tokens words, in the current or
\* the deprecated spelling of the keys, with or without white space at the end
TokenLists(max_tokens) == UNION {[1..n -> Words] : n \in 0..max_tokens}

Commands(max_tokens) ==
    {[called |-> FALSE, tokens |-> t, trailing_space |-> w] :
        t \in TokenLists(max_tokens), w \in BOOLEAN}
    \cup {[called |-> FALSE, tokens |-> [i \in DOMAIN t |-> Deprecated(t[i])],
           trailing_space |-> FALSE] : t \in TokenLists(max_tokens)}

\* one rank with one hexahedron, before CreateContactEntities
ParseScenarios ==
    {sc \in StepScenarios : sc.nelem = 1 /\ sc.blockOf[1] = 1}

InitParse ==
    /\ \E sc \in ParseScenarios : InitOf(sc)
    /\ use_kokkos = FALSE
    /\ proj = NoProjection
    /\ command \in Commands(MaxTokens)

\* the call with two empty vectors and a penalty_parameter of -1
CallParseContactCommand ==
    /\ ~command.called
    /\ \E out \in {ParseContactCommand(command.tokens, command.trailing_space,
                                       <<>>, <<>>, -1)} :
          command' = [called |-> TRUE, tokens |-> command.tokens,
                      trailing_space |-> command.trailing_space,
                      thrown |-> out.thrown,
                      primary_block_names |-> out.primary_block_names,
                      secondary_block_names |-> out.secondary_block_names,
                      penalty_parameter |-> out.penalty_parameter]
    /\ last_op' = "ParseContactCommand"
    /\ result' = IF command'.thrown THEN "invalid_argument" ELSE "ok"
    /\ UNCHANGED <<penalty_parameter_, displacement, contact_force, contact_force_d,
                   use_kokkos, proj, bounding_box, kernel, pc>>
    /\ UNCHANGED meshVars
    /\ UNCHANGED submodelVars

NextParse == CallParseContactCommand

SpecParse == InitParse /\ [][NextParse]_vars


(***************************************************************************)
(* The data-parallel path: the Kokkos overloads of ApplyDisplacements and  *)
(* GetForces, task by task.  A call dispatches its kernels; the tasks of   *)
(* one kernel run in any order, the kernels of a call one after the other. *)
(***************************************************************************)
\* the kernels of the two calls, in the order the call dispatches them
KernelsOf(name) ==
    IF name = "ApplyDisplacements" THEN <<"set_coord", "set_nodes", "set_faces">>
    ELSE IF name = "GetForces" THEN <<"get_forces">>
    ELSE <<>>

\* the extent a kernel is dispatched over
NumTasks(d, label) ==
    IF label \in {"set_coord", "get_forces"} THEN Len(d.node_ids_d_)
    ELSE IF label = "set_nodes" THEN Len(d.contact_nodes_d_)
    ELSE Len(d.contact_faces_d_)

\* the tasks a call dispatches
TasksOf(d, name) ==
    UNION {{<<KernelsOf(name)[k], i>> : i \in 0..(NumTasks(d, KernelsOf(name)[k]) - 1)} :
           k \in DOMAIN KernelsOf(name)}

\* the position of a kernel in its call
KernelIndex(name, label) ==
    CHOOSE k \in DOMAIN KernelsOf(name) : KernelsOf(name)[k] = label

\* the tasks that may run: those of the first kernel of the call that has
\* tasks left, kernels of one execution space running in dispatch order
Runnable(k) ==
    {t \in k.pending :
        \A u \in k.pending : KernelIndex(k.name, t[1]) <= KernelIndex(k.name, u[1])}

\* fault: the three slots of a node written at the node's id in the mesh
CoordTaskAtNodeId(d, displacement_d, i) ==
    [k \in 1..Len(d.coord_d_) |->
        IF (k - 1) \div 3 = At(d.node_ids_d_, i)
        THEN At(d.model_coord_d_, k - 1)
             + At(displacement_d, 3 * At(d.node_ids_d_, i) + ((k - 1) % 3))
        ELSE d.coord_d_[k]]

\* lines 790-795: task i of the kernel that sets coord_d_
CoordTask(d, displacement_d, i) ==
    [k \in 1..Len(d.coord_d_) |->
        IF (k - 1) \div 3 = i
        THEN At(d.model_coord_d_, k - 1)
             + At(displacement_d, 3 * At(d.node_ids_d_, i) + ((k - 1) % 3))
        ELSE d.coord_d_[k]]

\* lines 766-769: task i of the kernel of GetForces
ForceTask(contact_force_r, d, i) ==
    [k \in 1..Len(contact_force_r) |->
        IF (k - 1) \div 3 = At(d.node_ids_d_, i)
        THEN At(d.force_d_, 3 * i + ((k - 1) % 3))
        ELSE contact_force_r[k]]

\* the views after one task
DeviceAfterTask(d, displacement_d, t) ==
    IF t[1] = "set_coord"
    THEN [d EXCEPT !.coord_d_ = CoordTask(d, displacement_d, t[2])]
    ELSE IF t[1] = "set_nodes"
    THEN [d EXCEPT !.contact_nodes_d_[t[2] + 1] = SetCoordinates(@, d.coord_d_)]
    ELSE IF t[1] = "set_faces"
    THEN [d EXCEPT !.contact_faces_d_[t[2] + 1] = SetCoordinates(@, d.coord_d_)]
    ELSE d

\* the kernel variable after task t has run
AfterTask(k, t) ==
    IF k.pending = {t} THEN NoKernel ELSE [k EXCEPT !.pending = @ \ {t}]

\* lines 774-808: ApplyDisplacements(displacement_d) dispatches its three kernels
LaunchApplyDisplacements(r, seed) ==
    /\ pc[r] = "done"
    /\ use_kokkos
    /\ kernel[r].pending = {}
    /\ displacement' = [displacement EXCEPT ![r] = DisplacementField(mesh[r], seed)]
    /\ \E tasks \in {TasksOf(device[r], "ApplyDisplacements")} :
          kernel' = [kernel EXCEPT ![r] =
                        IF tasks = {} THEN NoKernel
                        ELSE [name |-> "ApplyDisplacements", pending |-> tasks]]
    /\ last_op' = "ApplyDisplacements"
    /\ result' = "ok"
    /\ UNCHANGED <<meshVars, pc, submodelVars, penalty_parameter_, contact_force,
                   use_kokkos, proj, bounding_box, command, contact_force_d>>

\* lines 756-771: GetForces(contact_force_d) dispatches its kernel
LaunchGetForces(r) ==
    /\ pc[r] = "done"
    /\ use_kokkos
    /\ kernel[r].pending = {}
    /\ \E tasks \in {TasksOf(device[r], "GetForces")} :
          kernel' = [kernel EXCEPT ![r] =
                        IF tasks = {} THEN NoKernel
                        ELSE [name |-> "GetForces", pending |-> tasks]]
    /\ last_op' = "GetForces"
    /\ result' = "ok"
    /\ UNCHANGED <<meshVars, pc, submodelVars, penalty_parameter_, displacement,
                   contact_force, use_kokkos, proj, bounding_box, command, contact_force_d>>

\* one task of a kernel in flight
RunTask(r, t) ==
    /\ t \in Runnable(kernel[r])
    /\ device' = [device EXCEPT ![r] = DeviceAfterTask(@, displacement[r], t)]
    /\ contact_force_d' =
           [contact_force_d EXCEPT ![r] =
               IF t[1] = "get_forces" THEN ForceTask(@, device[r], t[2]) ELSE @]
    /\ kernel' = [kernel EXCEPT ![r] = AfterTask(@, t)]
    /\ UNCHANGED <<meshVars, pc, node_ids_, model_coord_, coord_, force_, contact_nodes_,
                   contact_faces_, penalty_parameter_, displacement, contact_force,
                   last_op, result, use_kokkos, proj, bounding_box, command>>

\* the backend leaves its forces in force_d_, a different one in every slot
BackendWritesForces(r) ==
    /\ pc[r] = "done"
    /\ use_kokkos
    /\ kernel[r].pending = {}
    /\ device' = [device EXCEPT ![r].force_d_ = [k \in DOMAIN @ |-> k + 1]]
    /\ last_op' = "ComputeContactForce"
    /\ result' = "ok"
    /\ UNCHANGED <<meshVars, pc, node_ids_, model_coord_, coord_, force_, contact_nodes_,
                   contact_faces_, penalty_parameter_, displacement, contact_force,
                   use_kokkos, proj, bounding_box, kernel, command, contact_force_d>>

\* the skin faces of the cube the submodel is built from: quadrilaterals
QuadLists == {<<>>, <<<<0, 1, 3, 2>>>>, <<<<4, 5, 7, 6>>>>}

InitPar ==
    /\ Constructed(1, (0 :> MeshOfRank(OneCube, 0)))
    /\ pc = (0 :> "build")
    /\ use_kokkos = TRUE
    /\ proj = NoProjection
    /\ command = NoCommand
    /\ \E pf \in QuadLists :
          /\ primary_skin_faces = (0 :> pf)
          /\ primary_skin_entity_ids = (0 :> EntityIdsFor(pf))
    /\ \E sf \in QuadLists :
          /\ secondary_skin_faces = (0 :> sf)
          /\ secondary_skin_entity_ids = (0 :> EntityIdsFor(sf))

NextPar ==
    \/ \E r \in Ranks : Build(r)
    \/ \E r \in Ranks, seed \in 1..MaxSeed : LaunchApplyDisplacements(r, seed)
    \/ \E r \in Ranks : BackendWritesForces(r)
    \/ \E r \in Ranks : LaunchGetForces(r)
    \/ \E r \in Ranks : \E t \in kernel[r].pending : RunTask(r, t)

SpecPar == InitPar /\ [][NextPar]_vars

(***************************************************************************)
(* Properties.  The faces of the elements are counted here from the        *)
(* connectivity of the mesh, without the map of SkinBlocks.                *)
(***************************************************************************)
\* the (block, element, face ordinal) triples of the blocks of block_ids
ElementFaces(m, block_ids) ==
    UNION {{<<b, e, f>> : e \in 1..Len(m.blocks[b].conn), f \in 0..5} :
              b \in Range(block_ids)}

\* the nodes of the face of such a triple, in template order
NodesOfElementFace(m, c) == FaceNodes(m.blocks[c[1]].conn[c[2]], c[3])

\* the exodus (1-based) id of the element of such a triple
ExodusIdOfElementFace(m, c) == m.blocks[c[1]].elem_global_ids[c[2]] + 1

\* how many element faces have the node set S
TimesSeen(m, block_ids, S) ==
    Cardinality({c \in ElementFaces(m, block_ids) : Range(NodesOfElementFace(m, c)) = S})

\* the node sets that two elements share
SharedNodeSets(m, block_ids) ==
    {S \in {Range(NodesOfElementFace(m, c)) : c \in ElementFaces(m, block_ids)} :
        TimesSeen(m, block_ids, S) = 2}

\* some face is seen neither once nor twice
SeenTooOften(m, block_ids) ==
    \E c \in ElementFaces(m, block_ids) :
        TimesSeen(m, block_ids, Range(NodesOfElementFace(m, c))) \notin {1, 2}

\* the rank has the output of both calls of SkinBlocks and has not changed it
AfterSkinBlocks(r) == pc[r] = "xbegin" /\ call[r] = 1

\* skin_faces and entity_ids are what the claim asks of SkinBlocks
SkinIsFacesSeenOnce(m, block_ids, skin_faces, entity_ids) ==
    /\ Len(entity_ids) = Len(skin_faces)
    /\ \A i \in 1..Len(skin_faces) :
          /\ TimesSeen(m, block_ids, Range(skin_faces[i])) = 1
          /\ \E c \in ElementFaces(m, block_ids) : NodesOfElementFace(m, c) = skin_faces[i]
    /\ \A i, j \in 1..Len(skin_faces) :
          i # j => Range(skin_faces[i]) # Range(skin_faces[j])
    /\ \A c \in ElementFaces(m, block_ids) :
          IF TimesSeen(m, block_ids, Range(NodesOfElementFace(m, c))) = 1
          THEN \E i \in 1..Len(skin_faces) : skin_faces[i] = NodesOfElementFace(m, c)
          ELSE \A i \in 1..Len(skin_faces) :
                  Range(skin_faces[i]) # Range(NodesOfElementFace(m, c))
    /\ Cardinality(ElementFaces(m, block_ids)) = 6 =>
          /\ Len(skin_faces) = 6
          /\ \A i, j \in 1..6 : i # j => entity_ids[i] # entity_ids[j]
    /\ (/\ Cardinality(ElementFaces(m, block_ids)) = 12
        /\ Cardinality(SharedNodeSets(m, block_ids)) = 1) =>
          Len(skin_faces) = 10

\* C1: SkinBlocks outputs exactly the faces whose node key occurs once among
\* the template faces of the elements of the requested blocks, each once and
\* with one entity id each; a face seen twice is not output; one cube gives 6
\* faces with pairwise distinct entity ids, two cubes sharing a face give 10.
C1_SkinBlocksOutputsFacesSeenOnce ==
    \A r \in Ranks :
        AfterSkinBlocks(r) =>
            /\ SkinIsFacesSeenOnce(mesh[r], primary_block_ids,
                                   primary_skin_faces[r], primary_skin_entity_ids[r])
            /\ SkinIsFacesSeenOnce(mesh[r], secondary_block_ids,
                                   secondary_skin_faces[r], secondary_skin_entity_ids[r])

\* two cubes, one in each primary block, share a face: 10 faces are output
C1_TwoCubesSkinned ==
    \E r \in Ranks :
        /\ AfterSkinBlocks(r)
        /\ \A b \in Range(primary_block_ids) : Len(mesh[r].blocks[b].conn) = 1
        /\ Cardinality(SharedNodeSets(mesh[r], primary_block_ids)) = 1
        /\ Len(primary_skin_faces[r]) = 10

\* the node global ids of a face of a rank
GlobalIdsOf(m, face) == {At(m.node_global_ids, face[k]) : k \in 1..Len(face)}

\* the global-id sets of the skin faces of one rank
GlobalIdsOfSkin(q, block_ids) ==
    {GlobalIdsOf(mesh[q], face) :
        face \in Range(SkinBlocks(mesh[q], block_ids, contact_entity_id_offset[q]).skin_faces)}

\* the global-id sets of the skin faces that the other ranks computed
FacesOfOtherRanks(r, block_ids) ==
    UNION {GlobalIdsOfSkin(q, block_ids) : q \in Ranks \ {r}}

\* faces and entity_ids are the skin of rank r without the faces that another
\* rank holds too, in the order of the skin
Deduplicated(r, block_ids, faces, entity_ids) ==
    \E raw \in {SkinBlocks(mesh[r], block_ids, contact_entity_id_offset[r])} :
    \E others \in {FacesOfOtherRanks(r, block_ids)} :
    \E keep \in {SelectSeq([i \in 1..Len(raw.skin_faces) |-> i],
                           LAMBDA i : GlobalIdsOf(mesh[r], raw.skin_faces[i]) \notin others)} :
        /\ faces = [k \in 1..Len(keep) |-> raw.skin_faces[keep[k]]]
        /\ entity_ids = [k \in 1..Len(keep) |-> raw.entity_ids[keep[k]]]

\* C2: when RemoveInternalSkinFaces has returned on a rank (any number of
\* ranks), its face list holds no face whose node global ids are those of a
\* face of the list of another rank, and holds every other face of its skin.
C2_SharedFacesRemovedOnBothRanks ==
    \A r \in Ranks :
        pc[r] = "build" =>
            /\ Deduplicated(r, primary_block_ids,
                            primary_skin_faces[r], primary_skin_entity_ids[r])
            /\ Deduplicated(r, secondary_block_ids,
                            secondary_skin_faces[r], secondary_skin_entity_ids[r])

\* a rank has lost a face to another rank and kept the others
C2_FaceRemovedAndFaceKept ==
    \E r \in Ranks :
        /\ pc[r] = "build"
        /\ num_ranks > 1
        /\ Len(primary_skin_faces[r]) > 0
        /\ Len(primary_skin_faces[r]) <
               Len(SkinBlocks(mesh[r], primary_block_ids, contact_entity_id_offset[r]).skin_faces)

\* the element face that a contact triangle of rank r was cut from
ParentFace(r, T) ==
    CHOOSE c \in ElementFaces(mesh[r], primary_block_ids) :
        Range(NodesOfElementFace(mesh[r], c)) =
            {At(node_ids_[r], n) : n \in Range(T.node_ids_for_fictitious_node)}

\* the nodes n0, n1, n2, n3 of an element face, as submodel ids
FaceInSubmodel(r, c) ==
    [k \in 1..4 |-> IndexOf(node_ids_[r], NodesOfElementFace(mesh[r], c)[k])]

\* the ordinal of a triangle: the place of its first node in its face
OrdinalInFace(face, T) == CHOOSE t \in 0..3 : At(face, t) = T.node_id_1

\* (parent element global id, face ordinal, triangle ordinal, entity id) of the
\* contact triangles of rank r
PackedTriples(r) ==
    {The({<<mesh[r].blocks[c[1]].elem_global_ids[c[2]], c[3],
            OrdinalInFace(FaceInSubmodel(r, c), contact_faces_[r][k]),
            contact_faces_[r][k].contact_entity_global_id>> :
          c \in {ParentFace(r, contact_faces_[r][k])}}) :
       k \in 1..Len(contact_faces_[r])}

\* C3: the packed id is injective: two different triples (parent element
\* global id, face ordinal, triangle ordinal), each with an element id plus
\* offset that fits 59 bits (all those of the meshes here are below 2^30),
\* have different contact_entity_global_id, and shifting and masking the id
\* gives the triple back.
C3_PackedIdInjective ==
    \A packed \in {UNION {PackedTriples(r) : r \in {q \in Ranks : pc[q] = "done"}}} :
        /\ \A a, b \in packed : a[4] = b[4] => a = b
        /\ \A r \in {q \in Ranks : pc[q] = "done"} : \A a \in PackedTriples(r) :
              /\ a[4] \div 32 = a[1] + 1 + contact_entity_id_offset[r]
              /\ (a[4] \div 4) % 8 = a[2]
              /\ a[4] % 4 = a[3]

\* ((e + offset) << 5) | ((f & 0x7) << 2) | (t & 0x3) on ints
PackedId(e, offset, f, t) ==
    BitOr(BitOr(ShiftLeft(e + offset, 5), ShiftLeft(f % 8, 2)), t % 4)

\* the ids of a list of skin faces carry triangle ordinal 0
SkinIdsPacked(m, block_ids, offset, skin_faces, entity_ids) ==
    \A i \in 1..Len(skin_faces) :
        \E c \in ElementFaces(m, block_ids) :
            /\ NodesOfElementFace(m, c) = skin_faces[i]
            /\ entity_ids[i] = PackedId(ExodusIdOfElementFace(m, c), offset, c[3], 0)

\* triangle k of rank r is triangle (k - 1) % 4 of its face, on the nodes
\* n_t, n_t+1 and the barycenter, with the packed id of that ordinal
TrianglePacked(r, k) ==
    \E T \in {contact_faces_[r][k]} :
    \E c \in {ParentFace(r, T)} :
    \E face \in {FaceInSubmodel(r, c)} :
    \E t \in {(k - 1) % 4} :
        /\ T.node_id_1 = At(face, t)
        /\ T.node_id_2 = At(face, (t + 1) % 4)
        /\ T.node_ids_for_fictitious_node = face
        /\ T.contact_entity_global_id =
               PackedId(ExodusIdOfElementFace(mesh[r], c), contact_entity_id_offset[r], c[3], t)
        /\ T.contact_entity_global_id - t =
               PackedId(ExodusIdOfElementFace(mesh[r], c), contact_entity_id_offset[r], c[3], 0)

ContactNodeIds(r) ==
    {contact_nodes_[r][k].contact_entity_global_id : k \in 1..Len(contact_nodes_[r])}

ContactTriangleIds(r) ==
    {contact_faces_[r][k].contact_entity_global_id : k \in 1..Len(contact_faces_[r])}

\* C5: after CreateContactEntities, no id of a contact node (node global id
\* + 1) is the id of a contact triangle, on the same rank or on another.
C5_NodeIdsDisjointFromTriangleIds ==
    \A r1, r2 \in Ranks :
        (pc[r1] = "done" /\ pc[r2] = "done") =>
            ContactNodeIds(r1) \cap ContactTriangleIds(r2) = {}

\* the largest node global id of the mesh, all ranks together
GlobalMaxNodeGlobalId == SetMax(UNION {Range(mesh[q].node_global_ids) : q \in Ranks})

EntitiesSetFrom(entities, coord) ==
    \A i \in 1..Len(entities) : entities[i] = SetCoordinates(entities[i], coord)

\* C7: right after ApplyDisplacements(displacement), coord_[3i+k] is
\* model_coord_[3i+k] + displacement[3*node_ids_[i]+k] for every submodel
\* index i and component k, and every contact face and contact node has had
\* SetCoordinates called with that coord_.
C7_CoordIsModelCoordPlusDisplacement ==
    last_op = "ApplyDisplacements" =>
        \A r \in Ranks :
            /\ Len(coord_[r]) = 3 * Len(node_ids_[r])
            /\ \A i \in 0..(Len(node_ids_[r]) - 1) : \A k \in 0..2 :
                  At(coord_[r], 3 * i + k) =
                      At(model_coord_[r], 3 * i + k)
                          + At(displacement[r], 3 * At(node_ids_[r], i) + k)
            /\ EntitiesSetFrom(contact_faces_[r], coord_[r])
            /\ EntitiesSetFrom(contact_nodes_[r], coord_[r])

\* displacements applied to a submodel that leaves out the first nodes of the
\* mesh and has contact faces and contact nodes, some node moved
C7_DisplacedSubmodel ==
    /\ last_op = "ApplyDisplacements"
    /\ \E r \in Ranks :
          /\ contact_faces_[r] # <<>>
          /\ contact_nodes_[r] # <<>>
          /\ coord_[r] # model_coord_[r]
          /\ \E i \in 0..(Len(node_ids_[r]) - 1) : At(node_ids_[r], i) # i
          /\ \E i \in 1..Len(contact_faces_[r]) :
                contact_faces_[r][i].coord_1 #
                    Coord3(model_coord_[r], contact_faces_[r][i].node_id_1)

\* C8: ComputeContactForce called with penalty_parameter_ <= 0 (also on a
\* manager whose penalty parameter was never set) ends in
\* std::invalid_argument and leaves coord_, force_, contact_force and the
\* contact entities as they were.
C8_InvalidPenaltyThrowsFirst ==
    [][\A r \in Ranks :
          (last_op' = "ComputeContactForce" /\ penalty_parameter_[r] <= 0) =>
              /\ result' = "invalid_argument"
              /\ coord_' = coord_
              /\ force_' = force_
              /\ contact_force' = contact_force
              /\ contact_nodes_' = contact_nodes_
              /\ contact_faces_' = contact_faces_]_vars

\* the call was refused on a manager with a displaced submodel
C8_RefusedWithSubmodel ==
    /\ last_op = "ComputeContactForce"
    /\ result = "invalid_argument"
    /\ \E r \in Ranks :
          /\ penalty_parameter_[r] <= 0
          /\ pc[r] = "done"
          /\ contact_faces_[r] # <<>>
          /\ coord_[r] # model_coord_[r]

\* C9: SkinBlocks aborts when a face key is seen a number of times that is
\* neither 1 nor 2: no skin comes back from that call, and the caller goes no
\* further.
C9_FaceSeenThriceAborts ==
    \A r \in Ranks :
        call[r] >= 1 =>
            /\ SeenTooOften(mesh[r], primary_block_ids) =>
                  /\ pc[r] = "aborted"
                  /\ primary_skin_faces[r] = <<>> /\ primary_skin_entity_ids[r] = <<>>
                  /\ secondary_skin_faces[r] = <<>> /\ secondary_skin_entity_ids[r] = <<>>
                  /\ contact_faces_[r] = <<>> /\ contact_nodes_[r] = <<>>
            /\ SeenTooOften(mesh[r], secondary_block_ids) =>
                  /\ pc[r] = "aborted"
                  /\ secondary_skin_faces[r] = <<>> /\ secondary_skin_entity_ids[r] = <<>>
                  /\ contact_faces_[r] = <<>> /\ contact_nodes_[r] = <<>>

\* the second call of SkinBlocks aborted on three coincident cubes, after the
\* first had returned a skin
C9_AbortedOnCoincidentCubes ==
    \E r \in Ranks :
        /\ pc[r] = "aborted"
        /\ SeenTooOften(mesh[r], secondary_block_ids)
        /\ ~SeenTooOften(mesh[r], primary_block_ids)

\* the builder has run on rank r
Built(r) == pc[r] \in {"aborted", "done"}

HasFaceNotOfFourNodes(faces) == \E i \in 1..Len(faces) : Len(faces[i]) # 4

IVSub(a, b) == <<a[1] - b[1], a[2] - b[2], a[3] - b[3]>>

IDot(a, b) == a[1] * b[1] + a[2] * b[2] + a[3] * b[3]

ICross(a, b) ==
    <<a[2] * b[3] - a[3] * b[2], a[3] * b[1] - a[1] * b[3], a[1] * b[2] - a[2] * b[1]>>

\* the weights of the foot of the perpendicular from p on the plane of p1, p2, p3
WeightsByGram(p, p1, p2, p3) ==
    The({The({<<RSub(RSub(RInt(1), a2), a3), a2, a3>> :
              <<a2, a3>> \in
                 {<<Rat(IDot(w, u) * IDot(v, v) - IDot(w, v) * IDot(u, v),
                        IDot(u, u) * IDot(v, v) - IDot(u, v) * IDot(u, v)),
                    Rat(IDot(w, v) * IDot(u, u) - IDot(w, u) * IDot(u, v),
                        IDot(u, u) * IDot(v, v) - IDot(u, v) * IDot(u, v))>>}}) :
         <<u, v, w>> \in {<<IVSub(p2, p1), IVSub(p3, p1), IVSub(p, p1)>>}})

\* the weights of the node of the call on the triangle of the call
WeightsOfCall == WeightsByGram(proj.node.coord_1, proj.tri.coord_1, proj.tri.coord_2, proj.tri.coord_3)

\* (p - p1) . n and n . n for the normal n = (p2 - p1) x (p3 - p1) of the call
HeightTimesNormOfCall ==
    IDot(IVSub(proj.node.coord_1, proj.tri.coord_1),
         ICross(IVSub(proj.tri.coord_2, proj.tri.coord_1),
                IVSub(proj.tri.coord_3, proj.tri.coord_1)))

NormSquaredOfCall ==
    IDot(ICross(IVSub(proj.tri.coord_2, proj.tri.coord_1),
                IVSub(proj.tri.coord_3, proj.tri.coord_1)),
         ICross(IVSub(proj.tri.coord_2, proj.tri.coord_1),
                IVSub(proj.tri.coord_3, proj.tri.coord_1)))

\* every weight is strictly between -tol and 1 + tol
InOpenBand(weights, tol) ==
    \A i \in 1..3 : RLess(RNeg(tol), weights[i]) /\ RLess(weights[i], RAdd(RInt(1), tol))

\* every weight is between -tol and 1 + tol, the ends included
InClosedBand(weights, tol) ==
    \A i \in 1..3 : ~RLess(weights[i], RNeg(tol)) /\ ~RLess(RAdd(RInt(1), tol), weights[i])

\* the signed distance from the plane is below 0 and above -char_len
PenetratingNotThrough(h, n2, char_len) ==
    h < 0 /\ h * h < char_len * char_len * n2

\* the triangle with the normal +z and the centroid (4, 4, 0)
FlatTriangle == << <<0, 0, 0>>, <<12, 0, 0>>, <<0, 12, 0>> >>

CoordsOfTriangle(tri) == <<tri.coord_1, tri.coord_2, tri.coord_3>>

StrictlyInsideFace(weights, tol) ==
    \A i \in 1..3 : RLess(tol, weights[i]) /\ RLess(weights[i], RSub(RInt(1), tol))

\* the foot of the perpendicular from the node on the plane of the triangle
FootOfCall ==
    [i \in 1..3 |->
        RSub(RInt(proj.node.coord_1[i]),
             Rat(HeightTimesNormOfCall
                    * ICross(IVSub(proj.tri.coord_2, proj.tri.coord_1),
                             IVSub(proj.tri.coord_3, proj.tri.coord_1))[i],
                 NormSquaredOfCall))]

\* C12 as stated: ClosestPointProjectionSingle treats the projection as inside
\* exactly when the three weights lie in [-tol, 1+tol], and then returns FACE
\* exactly when the three weights lie strictly in (tol, 1-tol), NODE_OR_EDGE
\* otherwise.
C12_FaceIffStrictlyInsideBand ==
    proj.called = "ClosestPointProjectionSingle" =>
        /\ proj.inside = InClosedBand(WeightsOfCall, proj.tol)
        /\ proj.inside =>
              (proj.out.projection_type = "FACE") = StrictlyInsideFace(WeightsOfCall, proj.tol)

\* C12, amended: ClosestPointProjectionSingle treats the projection as inside
\* exactly when the three weights lie strictly between -tol and 1+tol (the
\* closest point is then the foot of the perpendicular), and in that case
\* returns FACE exactly when the three weights are all at least tol and
\* NODE_OR_EDGE otherwise; outside it returns NODE_OR_EDGE; a point at the
\* centroid is FACE (tol < 1/3) and a point on a vertex is NODE_OR_EDGE.
C12_FaceIffNoWeightBelowTol ==
    proj.called = "ClosestPointProjectionSingle" =>
        /\ proj.inside = InOpenBand(WeightsOfCall, proj.tol)
        /\ proj.inside =>
              /\ proj.out.closest_point = FootOfCall
              /\ (proj.out.projection_type = "FACE") =
                     (\A i \in 1..3 : ~RLess(WeightsOfCall[i], proj.tol))
        /\ proj.out.projection_type \in {"FACE", "NODE_OR_EDGE"}
        /\ ~proj.inside => proj.out.projection_type = "NODE_OR_EDGE"
        /\ (/\ CoordsOfTriangle(proj.tri) = FlatTriangle
            /\ proj.node.coord_1 = <<4, 4, 0>>) =>
               /\ WeightsOfCall = <<Rat(1, 3), Rat(1, 3), Rat(1, 3)>>
               /\ proj.out.projection_type = "FACE"
        /\ proj.node.coord_1 \in {proj.tri.coord_1, proj.tri.coord_2, proj.tri.coord_3} =>
               /\ \E i \in 1..3 : WeightsOfCall[i] = RInt(1)
               /\ proj.out.projection_type = "NODE_OR_EDGE"

\* a projection with the weights 1/2, 1/4, 1/4 and tol = 1/4 was classified
\* FACE, and one on a vertex NODE_OR_EDGE
C12_WeightEqualToTolIsFace ==
    /\ proj.called = "ClosestPointProjectionSingle"
    /\ proj.tol = <<1, 4>>
    /\ WeightsOfCall = <<Rat(1, 2), Rat(1, 4), Rat(1, 4)>>
    /\ proj.inside = TRUE
    /\ proj.out.projection_type = "FACE"

(***************************************************************************)
(* Properties of the contact entities and of the submodel.  Coordinates    *)
(* are read from the mesh, and the length of an edge, which is parallel    *)
(* to an axis in these meshes, is the sum of its coordinate differences.   *)
(***************************************************************************)
\* the mesh coordinates of submodel node n of rank r
MeshCoordOf(r, n) == At(mesh[r].coord, At(node_ids_[r], n))

EdgeLengthOnAxis(a, b) == Abs(a[1] - b[1]) + Abs(a[2] - b[2]) + Abs(a[3] - b[3])

\* the longest of the 4 edges of a quad, the closing edge n3-n0 included
LongestEdgeOfQuad(r, face) ==
    SetMax({EdgeLengthOnAxis(MeshCoordOf(r, At(face, k)), MeshCoordOf(r, At(face, (k + 1) % 4))) :
               k \in 0..3})

\* the average of the coordinates of the 4 nodes of a quad
AverageOfQuad(r, face) ==
    [j \in 1..3 |->
        (MeshCoordOf(r, face[1])[j] + MeshCoordOf(r, face[2])[j]
            + MeshCoordOf(r, face[3])[j] + MeshCoordOf(r, face[4])[j]) \div 4]

\* triangle t of primary face i of rank r
TriangleOf(r, i, t) == At(contact_faces_[r], 4 * i + t)

QuarterShares(T, f) ==
    [k \in 1..Len(T.node_ids_for_fictitious_node) |->
        [node_id |-> T.node_ids_for_fictitious_node[k], share |-> f \div 4]]

\* C14: every triangle made from a quad face records as its two real vertices
\* the two submodel nodes of its own edge of the quad, and as the contributors
\* of the barycenter exactly the 4 pairwise distinct submodel nodes of that
\* face, which are the nodes of one face of an element of the mesh; a force
\* at the barycenter split into a quarter per recorded node adds up to the
\* force, and no share goes to a node that is not on the face.
C14_TriangleRecordsEdgeAndFaceNodes ==
    \A r \in Ranks :
        pc[r] = "done" =>
            \A i \in 0..(Len(primary_skin_faces[r]) - 1) : \A t \in 0..3 :
               \E face \in {At(primary_skin_faces[r], i)} :
               \E T \in {TriangleOf(r, i, t)} :
                  /\ T.node_id_1 = At(face, t)
                  /\ T.node_id_2 = At(face, (t + 1) % 4)
                  /\ T.node_id_1 # T.node_id_2
                  /\ Len(T.node_ids_for_fictitious_node) = 4
                  /\ Range(T.node_ids_for_fictitious_node) = Range(face)
                  /\ Cardinality(Range(T.node_ids_for_fictitious_node)) = 4
                  /\ \E c \in ElementFaces(mesh[r], primary_block_ids) :
                        Range(NodesOfElementFace(mesh[r], c)) =
                            {At(node_ids_[r], n) : n \in Range(T.node_ids_for_fictitious_node)}
                  /\ \A f \in {4, 12} :
                        /\ SumSeq([k \in 1..4 |-> QuarterShares(T, f)[k].share]) = f
                        /\ Cardinality({QuarterShares(T, f)[k].node_id : k \in 1..4}) = 4
                        /\ \A k \in 1..4 : QuarterShares(T, f)[k].node_id \in Range(face)

\* a rank has the triangle of the closing edge n3-n0 of a face
C14_ClosingEdgeTriangle ==
    \E r \in Ranks :
        /\ pc[r] = "done"
        /\ \E i \in 0..(Len(primary_skin_faces[r]) - 1) :
              /\ TriangleOf(r, i, 3).node_id_1 = At(At(primary_skin_faces[r], i), 3)
              /\ TriangleOf(r, i, 3).node_id_2 = At(At(primary_skin_faces[r], i), 0)
              /\ TriangleOf(r, i, 3).node_ids_for_fictitious_node[4] = TriangleOf(r, i, 3).node_id_1

\* the mesh nodes that the faces of a list refer to
NodesOfFaces(faces) == UNION {Range(faces[i]) : i \in 1..Len(faces)}

\* faces' is faces with every mesh node index replaced by its place in node_ids
Renumbered(faces, renumbered, node_ids) ==
    /\ Len(renumbered) = Len(faces)
    /\ \A f \in 1..Len(faces) :
          /\ Len(renumbered[f]) = Len(faces[f])
          /\ \A k \in 1..Len(faces[f]) :
                /\ renumbered[f][k] \in 0..(Len(node_ids) - 1)
                /\ At(node_ids, renumbered[f][k]) = faces[f][k]

\* C15: the step of CreateContactEntities that follows the removal of the
\* shared faces leaves node_ids_ the strictly ascending list of exactly the
\* mesh node indices that the deduplicated primary and secondary skin faces
\* refer to; model_coord_, coord_ and force_ of length 3N, force_ all zero,
\* coord_ equal to model_coord_; and every face node index j rewritten with
\* 0 <= j < N and node_ids_[j] the original mesh node index.
C15_SubmodelOfTheSkinNodes ==
    [][\A r \in Ranks :
          (pc[r] = "build" /\ pc'[r] = "done") =>
              /\ \A i \in 1..(Len(node_ids_'[r]) - 1) : node_ids_'[r][i] < node_ids_'[r][i + 1]
              /\ Range(node_ids_'[r]) =
                     NodesOfFaces(primary_skin_faces[r]) \cup NodesOfFaces(secondary_skin_faces[r])
              /\ Len(model_coord_'[r]) = 3 * Len(node_ids_'[r])
              /\ Len(coord_'[r]) = 3 * Len(node_ids_'[r])
              /\ Len(force_'[r]) = 3 * Len(node_ids_'[r])
              /\ \A k \in 1..Len(force_'[r]) : force_'[r][k] = 0
              /\ coord_'[r] = model_coord_'[r]
              /\ \A i \in 0..(Len(node_ids_'[r]) - 1) : \A k \in 0..2 :
                    At(model_coord_'[r], 3 * i + k) =
                        At(mesh[r].coord, At(node_ids_'[r], i))[k + 1]
              /\ Renumbered(primary_skin_faces[r], primary_skin_faces'[r], node_ids_'[r])
              /\ Renumbered(secondary_skin_faces[r], secondary_skin_faces'[r], node_ids_'[r])]_vars

\* a rank has a submodel of primary and secondary faces that leaves out nodes
\* of its mesh, so that the submodel index of a node is not its mesh index
C15_SubmodelSmallerThanMesh ==
    \E r \in Ranks :
        /\ pc[r] = "done"
        /\ primary_skin_faces[r] # <<>>
        /\ secondary_skin_faces[r] # <<>>
        /\ Len(node_ids_[r]) < Len(mesh[r].node_global_ids)
        /\ \E i \in 0..(Len(node_ids_[r]) - 1) : At(node_ids_[r], i) # i

\* whether the partition-boundary lists of rank r name, for the mesh node l,
\* a minimum containing rank that is not r
OwnedByAnotherRank(r, l) ==
    \E k \in 1..Len(mesh[r].partition_boundary_node_local_ids) :
        /\ mesh[r].partition_boundary_node_local_ids[k] = l
        /\ mesh[r].min_rank_containing_partition_boundary_nodes[k] # r

\* the global id of the mesh node behind submodel node n of rank r
GlobalIdOf(r, n) == At(mesh[r].node_global_ids, At(node_ids_[r], n))

\* the global ids of the mesh nodes that are contact NODE entities of rank r
ContactNodeGlobalIds(r) ==
    {GlobalIdOf(r, contact_nodes_[r][k].node_id) : k \in 1..Len(contact_nodes_[r])}

\* the global ids of the nodes on the secondary skin faces of rank r
SecondaryFaceGlobalIds(r) ==
    {GlobalIdOf(r, n) : n \in NodesOfFaces(secondary_skin_faces[r])}

\* C16: a node whose partition-boundary entry names a minimum containing rank
\* other than the local rank is never a secondary contact node of that rank;
\* so a mesh node, by its global id, is a contact NODE entity on at most one
\* rank.
C16_GhostedNodesAreNoContactNodes ==
    /\ \A r \in Ranks :
          pc[r] = "done" =>
              \A k \in 1..Len(contact_nodes_[r]) :
                 /\ contact_nodes_[r][k].entity_type = "NODE"
                 /\ ~OwnedByAnotherRank(r, At(node_ids_[r], contact_nodes_[r][k].node_id))
    /\ \A r, q \in Ranks :
          (r # q /\ pc[r] = "done" /\ pc[q] = "done") =>
              ContactNodeGlobalIds(r) \cap ContactNodeGlobalIds(q) = {}

\* a node on secondary skin faces of two ranks is a contact node of one of them
C16_SharedSecondaryNodeOnOneRank ==
    \E r, q \in Ranks :
        /\ r # q /\ pc[r] = "done" /\ pc[q] = "done"
        /\ \E g \in SecondaryFaceGlobalIds(r) \cap SecondaryFaceGlobalIds(q) :
              g \in ContactNodeGlobalIds(r)

\* the secondary skin faces of rank r that hold submodel node n
SecondaryFacesAt(r, n) ==
    {i \in 1..Len(secondary_skin_faces[r]) : n \in Range(secondary_skin_faces[r][i])}

\* the largest of the longest edges of the local secondary faces at node n
LocalMaxLength(r, n) ==
    SetMax({LongestEdgeOfQuad(r, secondary_skin_faces[r][i]) : i \in SecondaryFacesAt(r, n)})

\* C17: on every rank, each node on a secondary skin face that is not ghosted
\* is exactly one contact NODE entity, with the entity id of its mesh node
\* global id + 1 and the characteristic length of the maximum, over the local
\* secondary skin faces at the node, of the longest of the 4 edges of the face.
C17_OneEntityPerSecondaryNode ==
    \A r \in Ranks :
        pc[r] = "done" =>
            /\ {contact_nodes_[r][k].node_id : k \in 1..Len(contact_nodes_[r])} =
                   {n \in NodesOfFaces(secondary_skin_faces[r]) :
                       ~OwnedByAnotherRank(r, At(node_ids_[r], n))}
            /\ \A k, l \in 1..Len(contact_nodes_[r]) :
                  contact_nodes_[r][k].node_id = contact_nodes_[r][l].node_id => k = l
            /\ \A k \in 1..Len(contact_nodes_[r]) :
                  \E e \in {contact_nodes_[r][k]} :
                     /\ e.entity_type = "NODE"
                     /\ e.local_id = k - 1
                     /\ e.contact_entity_global_id = GlobalIdOf(r, e.node_id) + 1
                     /\ e.char_len = LocalMaxLength(r, e.node_id)
                     /\ e.coord_1 = MeshCoordOf(r, e.node_id)

\* a contact node lies on secondary faces of two blocks' worth of lengths: a
\* square face, visited first, and an oblong one; and the rank leaves out a
\* ghosted node of a secondary face
C17_NodeOnShortThenLongFace ==
    \E r \in Ranks :
        /\ pc[r] = "done"
        /\ \E k \in 1..Len(contact_nodes_[r]) :
              \E F \in {SecondaryFacesAt(r, contact_nodes_[r][k].node_id)} :
                 /\ Cardinality(F) >= 3
                 /\ LongestEdgeOfQuad(r, secondary_skin_faces[r][SetMin(F)]) = 4
                 /\ contact_nodes_[r][k].char_len = 8
        /\ \E n \in NodesOfFaces(secondary_skin_faces[r]) :
              OwnedByAnotherRank(r, At(node_ids_[r], n))

\* the largest of the longest edges of the secondary faces, of any rank, at the
\* mesh node with the global id g
GlobalMaxLength(g) ==
    SetMax(UNION {{LongestEdgeOfQuad(q, secondary_skin_faces[q][i]) :
                      i \in {j \in 1..Len(secondary_skin_faces[q]) :
                                g \in {GlobalIdOf(q, n) : n \in Range(secondary_skin_faces[q][j])}}} :
                  q \in Ranks})

AllBuilt == \A r \in Ranks : pc[r] = "done"

\* C18: the characteristic length of a secondary contact node on a partition
\* boundary that secondary skin faces of two ranks touch is the maximum over
\* the secondary faces at the node on all ranks.
C18_LengthIsMaximumOverAllRanks ==
    AllBuilt =>
        \A r \in Ranks : \A k \in 1..Len(contact_nodes_[r]) :
            contact_nodes_[r][k].char_len =
                GlobalMaxLength(GlobalIdOf(r, contact_nodes_[r][k].node_id))

\* the step of rank r with which a call of RemoveInternalSkinFaces returns
ReturnsFromRemoveInternalSkinFaces(r) ==
    /\ pc[r] \in {"xbegin", "xdata"}
    /\ \/ call[r] = 1 /\ call'[r] = 2
       \/ call[r] = 2 /\ pc'[r] = "build"

\* after is before without the entries at some positions, the same positions in
\* both lists, the others in their order (the faces of a skin are distinct, so
\* a surviving face has one position in the list before)
SamePositionsRemoved(faces, entity_ids, faces_after, entity_ids_after) ==
    /\ Len(faces_after) = Len(entity_ids_after)
    /\ \A i \in 1..Len(faces_after) :
          /\ faces_after[i] \in Range(faces)
          /\ entity_ids_after[i] = At(entity_ids, IndexOf(faces, faces_after[i]))
    /\ \A i \in 1..(Len(faces_after) - 1) :
          IndexOf(faces, faces_after[i]) < IndexOf(faces, faces_after[i + 1])

\* no face of the list has the node global ids of a face that another rank sends
NoFaceMatches(r, block_ids, faces) ==
    \A i \in 1..Len(faces) :
        GlobalIdsOf(mesh[r], faces[i]) \notin FacesOfOtherRanks(r, block_ids)

\* C19: a call of RemoveInternalSkinFaces removes the same index positions from
\* faces and from entity_ids: afterwards the lists are equally long, the i-th
\* entity id is the id that belonged to the i-th surviving face before the
\* call, and the surviving faces are in their order of before; when no face
\* matches a received quadruple both lists are as before.
C19_SamePositionsRemovedFromBothLists ==
    [][\A r \in Ranks :
          ReturnsFromRemoveInternalSkinFaces(r) =>
              IF call[r] = 1
              THEN /\ SamePositionsRemoved(primary_skin_faces[r], primary_skin_entity_ids[r],
                                           primary_skin_faces'[r], primary_skin_entity_ids'[r])
                   /\ NoFaceMatches(r, primary_block_ids, primary_skin_faces[r]) =>
                          /\ primary_skin_faces'[r] = primary_skin_faces[r]
                          /\ primary_skin_entity_ids'[r] = primary_skin_entity_ids[r]
              ELSE /\ SamePositionsRemoved(secondary_skin_faces[r], secondary_skin_entity_ids[r],
                                           secondary_skin_faces'[r], secondary_skin_entity_ids'[r])
                   /\ NoFaceMatches(r, secondary_block_ids, secondary_skin_faces[r]) =>
                          /\ secondary_skin_faces'[r] = secondary_skin_faces[r]
                          /\ secondary_skin_entity_ids'[r] = secondary_skin_entity_ids[r]]_vars

\* the call on the primary faces of a rank has returned with a face removed
\* and the faces before it kept, and the lists shorter by the face removed
C19_FaceRemovedAndEarlierFacesKept ==
    \E r \in Ranks :
        /\ pc[r] = "xbegin" /\ call[r] = 2
        /\ \E i, j, k \in 1..Len(xchg[r].remove_face_hash) :
              /\ i < j /\ j < k
              /\ ~xchg[r].remove_face_hash[i]
              /\ ~xchg[r].remove_face_hash[j]
              /\ xchg[r].remove_face_hash[k]
        /\ Len(primary_skin_faces[r]) + 1 = Len(xchg[r].remove_face_hash)
        /\ Len(primary_skin_entity_ids[r]) = Len(primary_skin_faces[r])

AllZero(s) == \A k \in 1..Len(s) : s[k] = 0

\* every force accumulator of every entity of the list is 0: the 3 vertices
\* of a triangle, the vertex of a node
AccumulatorsZero(entities) ==
    \A i \in 1..Len(entities) :
        /\ AllZero(entities[i].force_1)
        /\ entities[i].entity_type = "TRIANGLE" =>
               AllZero(entities[i].force_2) /\ AllZero(entities[i].force_3)

\* C20: after ZeroContactForce has returned, in the host build and in the
\* build with Kokkos, every entry of the force buffer of the submodel is 0 and
\* every force accumulator of every contact face (3 vertices) and of every
\* contact node (1 vertex) that the manager holds is 0.
C20_ForcesAndAccumulatorsZeroAfterZeroContactForce ==
    last_op = "ZeroContactForce" =>
        \A r \in Ranks :
            /\ AllZero(force_[r])
            /\ AccumulatorsZero(contact_faces_[r])
            /\ AccumulatorsZero(contact_nodes_[r])
            /\ use_kokkos =>
                  /\ AllZero(device[r].force_d_)
                  /\ AccumulatorsZero(device[r].contact_faces_d_)
                  /\ AccumulatorsZero(device[r].contact_nodes_d_)

(***************************************************************************)
(* Properties of the fallback of ClosestPointProjectionSingle.  The        *)
(* candidates are computed from the integer coordinates of the call.       *)
(***************************************************************************)
IntPoint(c) == [i \in 1..3 |-> RInt(c[i])]

\* the parameter of the foot of the perpendicular from p on the line a b
FootParameter(a, b, p) == Rat(IDot(IVSub(p, a), IVSub(b, a)), IDot(IVSub(b, a), IVSub(b, a)))

\* the point a + t (b - a), t = n / d
PointAt(a, b, t) == [i \in 1..3 |-> Rat(a[i] * t[2] + (b[i] - a[i]) * t[1], t[2])]

\* the squared distance of a point q with rational coordinates to p
SquaredDistanceTo(q, p) ==
    RAdd(RAdd(RMul(RSub(q[1], RInt(p[1])), RSub(q[1], RInt(p[1]))),
              RMul(RSub(q[2], RInt(p[2])), RSub(q[2], RInt(p[2])))),
         RMul(RSub(q[3], RInt(p[3])), RSub(q[3], RInt(p[3]))))

VertexCandidate(v, p) ==
    [is_candidate |-> TRUE, point |-> IntPoint(v), distance_squared |-> SquaredDistanceTo(IntPoint(v), p)]

\* an edge counts when 0 < t < 1
EdgeCandidate(a, b, p) ==
    The({[is_candidate |-> t[1] > 0 /\ t[1] < t[2],
          point |-> PointAt(a, b, t),
          distance_squared |-> SquaredDistanceTo(PointAt(a, b, t), p)] :
         t \in {FootParameter(a, b, p)}})

\* vertex 1, vertex 2, vertex 3, edge 1-2, edge 2-3, edge 3-1
SixCandidates(p, t) ==
    <<VertexCandidate(t[1], p), VertexCandidate(t[2], p), VertexCandidate(t[3], p),
      EdgeCandidate(t[1], t[2], p), EdgeCandidate(t[2], t[3], p), EdgeCandidate(t[3], t[1], p)>>

\* k is the first of the candidates at the least squared distance
FirstNearest(cands, k) ==
    /\ cands[k].is_candidate
    /\ \A j \in 1..6 :
          cands[j].is_candidate =>
              /\ ~RLess(cands[j].distance_squared, cands[k].distance_squared)
              /\ j < k => RLess(cands[k].distance_squared, cands[j].distance_squared)

\* C24: when the projection is outside the triangle, ClosestPointProjectionSingle
\* returns NODE_OR_EDGE and the closest point is the candidate at the least
\* squared distance to the node among vertex 1, vertex 2, vertex 3, edge 1-2,
\* edge 2-3, edge 3-1 (an edge only when 0 < t < 1), the earlier candidate on
\* equal distances, built for an edge with the parameter of that edge.
C24_FallbackIsFirstNearestCandidate ==
    (proj.called = "ClosestPointProjectionSingle" /\ proj.inside = FALSE) =>
        \E cands \in {SixCandidates(proj.node.coord_1, CoordsOfTriangle(proj.tri))} :
            /\ proj.out.projection_type = "NODE_OR_EDGE"
            /\ proj.min_case \in 1..6
            /\ FirstNearest(cands, proj.min_case)
            /\ proj.out.closest_point = cands[proj.min_case].point

\* the fallback has returned a point inside the edge 2-3 although a vertex is
\* as near to the node as another vertex
C24_EdgeBeatsTiedVertices ==
    /\ proj.called = "ClosestPointProjectionSingle" /\ proj.inside = FALSE
    /\ proj.min_case = 5
    /\ \E cands \in {SixCandidates(proj.node.coord_1, CoordsOfTriangle(proj.tri))} :
          /\ cands[2].distance_squared = cands[3].distance_squared
          /\ ~cands[4].is_candidate
          /\ proj.out.closest_point # cands[2].point

MantissaBits == 4

\* binary exponents tried when a rational is rounded
MaxExponent == 12

\* the integer nearest to n / d, ties to the even one (n >= 0, d > 0)
RoundQuotient(n, d) ==
    IF 2 * (n % d) > d \/ (2 * (n % d) = d /\ (n \div d) % 2 = 1)
    THEN (n \div d) + 1 ELSE n \div d

\* n / d rounded to MantissaBits significant bits (n > 0, d > 0): the
\* mantissa is n / d scaled by the power of two that brings it into
\* [2^(MantissaBits-1), 2^MantissaBits)
RoundPositive(n, d) ==
    IF n >= d * TwoTo(MantissaBits - 1)
    THEN The({Rat(RoundQuotient(n, d * TwoTo(k)) * TwoTo(k), 1) :
              k \in {CHOOSE k \in 0..MaxExponent : n < d * TwoTo(MantissaBits + k)}})
    ELSE The({Rat(RoundQuotient(n * TwoTo(k), d), TwoTo(k)) :
              k \in {CHOOSE k \in 1..MaxExponent : n * TwoTo(k) >= d * TwoTo(MantissaBits - 1)}})

\* the double nearest to the rational a
Fl(a) ==
    IF a[1] = 0 THEN <<0, 1>>
    ELSE IF a[1] < 0 THEN RNeg(RoundPositive(-a[1], a[2]))
    ELSE RoundPositive(a[1], a[2])

\* the operations on doubles; the operands are values before the operation
\* is applied
FAdd(a, b) == The({Fl(r) : r \in {The({RAdd(x[1], x[2]) : x \in {<<a, b>>}})}})

FSub(a, b) == The({Fl(r) : r \in {The({RSub(x[1], x[2]) : x \in {<<a, b>>}})}})

FMul(a, b) == The({Fl(r) : r \in {The({RMul(x[1], x[2]) : x \in {<<a, b>>}})}})

FDiv(a, b) == The({Fl(r) : r \in {The({RDiv(x[1], x[2]) : x \in {<<a, b>>}})}})

FVSub(a, b) == [i \in 1..3 |-> FSub(a[i], b[i])]

\* a[0] * b[0] + a[1] * b[1] + a[2] * b[2], evaluated left to right
FDot(a, b) == FAdd(FAdd(FMul(a[1], b[1]), FMul(a[2], b[2])), FMul(a[3], b[3]))

\* CrossProduct(u, v, n)
FCrossProduct(u, v) ==
    <<FSub(FMul(u[2], v[3]), FMul(u[3], v[2])),
      FSub(FMul(u[3], v[1]), FMul(u[1], v[3])),
      FSub(FMul(u[1], v[2]), FMul(u[2], v[1]))>>

\* alpha * p1 + beta * p2 + gamma * p3
FCombination(alpha, beta, gamma, p1, p2, p3) ==
    [i \in 1..3 |-> FAdd(FAdd(FMul(alpha, p1[i]), FMul(beta, p2[i])), FMul(gamma, p3[i]))]

\* a > -tol && a < 1.0 + tol
FInRange(a, tol) == RLess(RNeg(tol), a) /\ RLess(a, FAdd(RInt(1), tol))

\* the statements the three routines share: u, v, w, n, n_squared and the
\* two weights computed by division (alpha3 is gamma, alpha2 is beta)
NormalAndTwoWeights(p, p1, p2, p3) ==
    The({The({[n |-> n, n_squared |-> n_squared,
               alpha3 |-> FDiv(FDot(FCrossProduct(uvw[1], uvw[3]), n), n_squared),
               alpha2 |-> FDiv(FDot(FCrossProduct(uvw[3], uvw[2]), n), n_squared)] :
              <<n, n_squared>> \in
                  {The({<<c, FDot(c, c)>> : c \in {FCrossProduct(uvw[1], uvw[2])}})}}) :
         uvw \in {<<FVSub(p2, p1), FVSub(p3, p1), FVSub(p, p1)>>}})

\* double alpha1 = 1.0 - alpha2 - alpha3
AlphaOneOfProjection(b) == FSub(FSub(RInt(1), b.alpha2), b.alpha3)

\* double alpha = 1 - gamma - beta
AlphaOfClosestPoint(b) == FSub(FSub(RInt(1), b.alpha3), b.alpha2)

\* s = 1.0 / std::sqrt(n_squared); normal[i] = n[i] * s
UnitNormal(b) ==
    The({[i \in 1..3 |-> FMul(b.n[i], s)] : s \in {FDiv(RInt(1), Fl(RSqrt(b.n_squared)))}})

\* ContactManager::Projection
ProjectionRounded(node, tri, out, tol) ==
    The({The({IF FInRange(alpha1, tol) /\ FInRange(b.alpha2, tol) /\ FInRange(b.alpha3, tol)
              THEN The({The({[out EXCEPT
                                 !.normal = normal,
                                 !.gap = gap,
                                 !.barycentric_coordinates = <<alpha1, b.alpha2, b.alpha3>>,
                                 !.in = RLess(gap, RInt(0))
                                        /\ RLess(RNeg(tri.char_len_), gap)] :
                             gap \in {FDot(FVSub(node.coord_1,
                                                 FCombination(alpha1, b.alpha2, b.alpha3,
                                                              tri.coord_1, tri.coord_2,
                                                              tri.coord_3)),
                                           normal)}}) :
                        normal \in {UnitNormal(b)}})
              ELSE [out EXCEPT !.in = FALSE] :
              alpha1 \in {AlphaOneOfProjection(b)}}) :
         b \in {NormalAndTwoWeights(node.coord_1, tri.coord_1, tri.coord_2, tri.coord_3)}})

\* ContactManager::SimpleClosestPointProjectionSingle
SimpleClosestPointProjectionSingleRounded(node, tri, out, tol) ==
    The({The({IF FInRange(alpha1, tol) /\ FInRange(b.alpha2, tol) /\ FInRange(b.alpha3, tol)
              THEN The({The({[out EXCEPT
                                 !.projection_type = "FACE",
                                 !.closest_point = xp,
                                 !.normal = normal,
                                 !.gap = FDot(FVSub(node.coord_1, xp), normal)] :
                             normal \in {UnitNormal(b)}}) :
                        xp \in {FCombination(alpha1, b.alpha2, b.alpha3,
                                             tri.coord_1, tri.coord_2, tri.coord_3)}})
              ELSE [out EXCEPT !.projection_type = "UNKNOWN"] :
              alpha1 \in {AlphaOneOfProjection(b)}}) :
         b \in {NormalAndTwoWeights(node.coord_1, tri.coord_1, tri.coord_2, tri.coord_3)}})

\* ContactManager::ClosestPointProjectionSingle; inside tells which branch of
\* "if (alpha_in_range && beta_in_range && gamma_in_range)" was taken.  The
\* functions of the else branch are evaluated exactly and their result is
\* rounded.
ClosestPointProjectionSingleRounded(node, tri, out, tol) ==
    The({The({IF FInRange(alpha, tol) /\ FInRange(b.alpha2, tol) /\ FInRange(b.alpha3, tol)
              THEN [out EXCEPT
                       !.inside = TRUE,
                       !.closest_point = FCombination(alpha, b.alpha2, b.alpha3,
                                                      tri.coord_1, tri.coord_2, tri.coord_3),
                       !.projection_type =
                           IF IsZero(alpha, tol) \/ IsZero(b.alpha2, tol)
                                                 \/ IsZero(b.alpha3, tol)
                           THEN "NODE_OR_EDGE" ELSE "FACE"]
              ELSE [out EXCEPT
                       !.inside = FALSE,
                       !.closest_point =
                           The({[i \in 1..3 |-> Fl(best.closest_point[i])] :
                                best \in {ClosestOnBoundary(node.coord_1, tri.coord_1,
                                                            tri.coord_2, tri.coord_3)}}),
                       !.projection_type = "NODE_OR_EDGE"] :
              alpha \in {AlphaOfClosestPoint(b)}}) :
         b \in {NormalAndTwoWeights(node.coord_1, tri.coord_1, tri.coord_2, tri.coord_3)}})

(***************************************************************************)
(* The three routines called, in any order, on the same node, triangle and *)
(* tolerance.  All inputs are doubles of the model.                        *)
(***************************************************************************)
\* half a unit in the last place of the doubles in [1/2, 1)
HalfUlp == <<1, TwoTo(MantissaBits + 1)>>

RoundTriangles ==
    {[coord_1 |-> <<RInt(1), RInt(0), RInt(0)>>, coord_2 |-> <<RInt(0), RInt(0), RInt(0)>>,
      coord_3 |-> <<RInt(0), RInt(1), RInt(0)>>, char_len_ |-> RInt(1)],
     [coord_1 |-> <<RInt(0), RInt(0), RInt(0)>>, coord_2 |-> <<RInt(1), RInt(0), RInt(0)>>,
      coord_3 |-> <<RInt(0), RInt(1), RInt(0)>>, char_len_ |-> RInt(1)],
     [coord_1 |-> <<RInt(0), RInt(0), RInt(0)>>, coord_2 |-> <<RInt(2), RInt(0), RInt(0)>>,
      coord_3 |-> <<RInt(0), RInt(2), RInt(0)>>, char_len_ |-> RInt(1)]}

RoundNodes ==
    {[coord_1 |-> <<x, y, z>>] :
        x \in {RNeg(HalfUlp), <<0, 1>>, <<1, 4>>, <<1, 2>>, <<1, 1>>},
        y \in {<<0, 1>>, HalfUlp, <<1, 4>>, RAdd(<<1, 4>>, HalfUlp), <<1, 2>>},
        z \in {<<-1, 2>>, <<0, 1>>, <<1, 4>>}}

RoundTols == {<<0, 1>>, HalfUlp, <<1, 8>>}

RoundRoutines ==
    {"Projection", "SimpleClosestPointProjectionSingle", "ClosestPointProjectionSingle"}

InitRound ==
    /\ Constructed(1, (0 :> MeshOfRank(OneCube, 0)))
    /\ pc = (0 :> "start")
    /\ primary_skin_faces = (0 :> <<>>)
    /\ primary_skin_entity_ids = (0 :> <<>>)
    /\ secondary_skin_faces = (0 :> <<>>)
    /\ secondary_skin_entity_ids = (0 :> <<>>)
    /\ use_kokkos = FALSE
    /\ command = NoCommand
    /\ \E node \in RoundNodes : \E tri \in RoundTriangles : \E tol \in RoundTols :
          proj = [called |-> {}, node |-> node, tri |-> tri, tol |-> tol,
                  Projection |-> Unwritten,
                  SimpleClosestPointProjectionSingle |-> Unwritten,
                  ClosestPointProjectionSingle |->
                      [inside |-> "unwritten", closest_point |-> <<>>,
                       projection_type |-> "unwritten"]]

CallProjectionRounded ==
    /\ "Projection" \notin proj.called
    /\ proj' = [proj EXCEPT !.called = @ \cup {"Projection"},
                            !.Projection =
                                ProjectionRounded(proj.node, proj.tri, @, proj.tol)]
    /\ UNCHANGED <<num_ranks, mesh, pc, call, max_node_global_id, contact_entity_id_offset,
                   primary_skin_faces, primary_skin_entity_ids, secondary_skin_faces,
                   secondary_skin_entity_ids, xchg, chan, penalty_parameter_, displacement,
                   contact_force, last_op, result, use_kokkos,
                   bounding_box, kernel, command, contact_force_d>>
    /\ UNCHANGED submodelVars

CallSimpleClosestPointProjectionSingleRounded ==
    /\ "SimpleClosestPointProjectionSingle" \notin proj.called
    /\ proj' = [proj EXCEPT !.called = @ \cup {"SimpleClosestPointProjectionSingle"},
                            !.SimpleClosestPointProjectionSingle =
                                SimpleClosestPointProjectionSingleRounded(proj.node, proj.tri,
                                                                          @, proj.tol)]
    /\ UNCHANGED <<num_ranks, mesh, pc, call, max_node_global_id, contact_entity_id_offset,
                   primary_skin_faces, primary_skin_entity_ids, secondary_skin_faces,
                   secondary_skin_entity_ids, xchg, chan, penalty_parameter_, displacement,
                   contact_force, last_op, result, use_kokkos,
                   bounding_box, kernel, command, contact_force_d>>
    /\ UNCHANGED submodelVars

CallClosestPointProjectionSingleRounded ==
    /\ "ClosestPointProjectionSingle" \notin proj.called
    /\ proj' = [proj EXCEPT !.called = @ \cup {"ClosestPointProjectionSingle"},
                            !.ClosestPointProjectionSingle =
                                ClosestPointProjectionSingleRounded(proj.node, proj.tri,
                                                                    @, proj.tol)]
    /\ UNCHANGED <<num_ranks, mesh, pc, call, max_node_global_id, contact_entity_id_offset,
                   primary_skin_faces, primary_skin_entity_ids, secondary_skin_faces,
                   secondary_skin_entity_ids, xchg, chan, penalty_parameter_, displacement,
                   contact_force, last_op, result, use_kokkos,
                   bounding_box, kernel, command, contact_force_d>>
    /\ UNCHANGED submodelVars

NextRound ==
    \/ CallProjectionRounded
    \/ CallSimpleClosestPointProjectionSingleRounded
    \/ CallClosestPointProjectionSingleRounded

SpecRound == InitRound /\ [][NextRound]_vars

\* C29: for the same node, triangle and tolerance the three routines agree:
\* Projection and SimpleClosestPointProjectionSingle take the same inside
\* decision and write the same unit normal and gap, and the closest point of
\* SimpleClosestPointProjectionSingle is the combination of the vertices with
\* the weights Projection reports; SimpleClosestPointProjectionSingle returns
\* UNKNOWN exactly when ClosestPointProjectionSingle takes its else branch;
\* and when the projection is inside both return the same closest point.
C29_ThreeRoutinesAgree ==
    proj.called = RoundRoutines =>
        /\ (proj.Projection.gap = Unwritten.gap)
               <=> (proj.SimpleClosestPointProjectionSingle.projection_type = "UNKNOWN")
        /\ proj.Projection.normal = proj.SimpleClosestPointProjectionSingle.normal
        /\ proj.Projection.gap = proj.SimpleClosestPointProjectionSingle.gap
        /\ proj.SimpleClosestPointProjectionSingle.projection_type = "FACE" =>
               proj.SimpleClosestPointProjectionSingle.closest_point =
                   FCombination(proj.Projection.barycentric_coordinates[1],
                                proj.Projection.barycentric_coordinates[2],
                                proj.Projection.barycentric_coordinates[3],
                                proj.tri.coord_1, proj.tri.coord_2, proj.tri.coord_3)
        /\ (proj.SimpleClosestPointProjectionSingle.projection_type = "UNKNOWN")
               <=> (proj.ClosestPointProjectionSingle.inside = FALSE)
        /\ proj.ClosestPointProjectionSingle.inside = TRUE =>
               proj.ClosestPointProjectionSingle.closest_point =
                   proj.SimpleClosestPointProjectionSingle.closest_point

(***************************************************************************)
(* The per-step operations.                                                *)
(***************************************************************************)
\* node_ids_ and force_ as the overload of the run's mode reads them
GatheredNodeIds(r) == IF use_kokkos THEN device[r].node_ids_d_ ELSE node_ids_[r]

GatheredForce(r) == IF use_kokkos THEN device[r].force_d_ ELSE force_[r]

\* the array GetForces writes
GatheredInto(r) == IF use_kokkos THEN contact_force_d[r] ELSE contact_force[r]

\* the mesh nodes of rank r that are not in its submodel
NodesOutsideSubmodel(r) ==
    {n \in 0..(Len(mesh[r].node_global_ids) - 1) : n \notin Range(GatheredNodeIds(r))}

\* the step is a call of the operation op
IsCallOf(op) == last_op' = op /\ vars' # vars

\* C26: GetForces sets contact_force[3 * node_ids_[i] + k] = force_[3 * i + k]
\* for every submodel index i and component k, leaves the entries of the mesh
\* nodes outside the submodel as they were, modifies neither force_ nor coord_
\* nor an entity; node_ids_ has no duplicates, so no entry is written twice.
C26_GetForcesGathersBySubmodelNode ==
    [][IsCallOf("GetForces") =>
          \A r \in Ranks :
             /\ \A i \in 0..(Len(GatheredNodeIds(r)) - 1) : \A k \in 0..2 :
                   At(GatheredInto(r)', 3 * At(GatheredNodeIds(r), i) + k)
                       = At(GatheredForce(r), 3 * i + k)
             /\ \A n \in NodesOutsideSubmodel(r) : \A k \in 0..2 :
                   At(GatheredInto(r)', 3 * n + k) = At(GatheredInto(r), 3 * n + k)
             /\ \A i, j \in 0..(Len(GatheredNodeIds(r)) - 1) :
                   i # j => At(GatheredNodeIds(r), i) # At(GatheredNodeIds(r), j)
             /\ UNCHANGED <<force_, coord_, contact_nodes_, contact_faces_, device,
                            node_ids_, model_coord_>>]_vars

\* GetForces has gathered the forces of a submodel that leaves out mesh nodes
\* and whose indices are not the mesh indices; the entries of the nodes
\* outside differ from the forces gathered
C26_GatheredIntoPartOfTheArray ==
    \E r \in Ranks :
        /\ last_op = "GetForces"
        /\ GatheredNodeIds(r) # <<>>
        /\ NodesOutsideSubmodel(r) # {}
        /\ \E i \in 0..(Len(GatheredNodeIds(r)) - 1) : At(GatheredNodeIds(r), i) # i
        /\ \E n \in NodesOutsideSubmodel(r) :
              At(GatheredInto(r), 3 * n) # At(GatheredForce(r), 0)

\* the ids of a list of entities, in the order of the list
EntityIds(entities) == [i \in 1..Len(entities) |-> entities[i].contact_entity_global_id]

PerStepOperations ==
    {"ApplyDisplacements", "ZeroContactForce", "GetForces", "BoundingBox",
     "ComputeContactForce"}

\* C22: once CreateContactEntities has returned, a per-step operation changes
\* neither node_ids_ nor model_coord_ nor the number of contact faces and
\* contact nodes nor the contact_entity_global_id of an entity, on the host
\* and in the Kokkos views, and runs no part of the construction again: the
\* skin lists and the position in CreateContactEntities stay as they are.
C22_PerStepOperationsKeepTheSubmodel ==
    [][(last_op' \in PerStepOperations /\ vars' # vars) =>
          \A r \in Ranks :
             pc[r] = "done" =>
                /\ node_ids_'[r] = node_ids_[r]
                /\ model_coord_'[r] = model_coord_[r]
                /\ EntityIds(contact_faces_'[r]) = EntityIds(contact_faces_[r])
                /\ EntityIds(contact_nodes_'[r]) = EntityIds(contact_nodes_[r])
                /\ device'[r].node_ids_d_ = device[r].node_ids_d_
                /\ device'[r].model_coord_d_ = device[r].model_coord_d_
                /\ EntityIds(device'[r].contact_faces_d_) = EntityIds(device[r].contact_faces_d_)
                /\ EntityIds(device'[r].contact_nodes_d_) = EntityIds(device[r].contact_nodes_d_)
                /\ pc'[r] = "done"
                /\ call'[r] = call[r]
                /\ primary_skin_faces'[r] = primary_skin_faces[r]
                /\ primary_skin_entity_ids'[r] = primary_skin_entity_ids[r]
                /\ secondary_skin_faces'[r] = secondary_skin_faces[r]
                /\ secondary_skin_entity_ids'[r] = secondary_skin_entity_ids[r]]_vars

\* a submodel with faces and nodes on which the five operations have acted:
\* it is displaced, its forces were computed, gathered and zeroed, and its
\* bounding box was taken
C22_EveryOperationHasActed ==
    \E r \in Ranks :
        /\ pc[r] = "done"
        /\ last_op = "GetForces"
        /\ (IF use_kokkos THEN device[r].contact_faces_d_ ELSE contact_faces_[r]) # <<>>
        /\ (IF use_kokkos THEN device[r].contact_nodes_d_ ELSE contact_nodes_[r]) # <<>>
        /\ (IF use_kokkos THEN device[r].coord_d_ # device[r].model_coord_d_
                          ELSE coord_[r] # model_coord_[r])
        /\ bounding_box[r].x_min < bounding_box[r].x_max
        /\ \E k \in 1..Len(GatheredForce(r)) : GatheredForce(r)[k] = 0
        /\ (IF use_kokkos THEN device[r].contact_faces_d_ ELSE contact_faces_[r])[1].force_1
               # Zero3
(***************************************************************************)
(* The phases of ComputeContactForce.                                      *)
(***************************************************************************)
InCall == {"displacements_applied", "forces_computed", "gathered", "copied_back"}

SubmodelCoordOf(r) == IF use_kokkos THEN device[r].coord_d_ ELSE coord_[r]

SubmodelForceOf(r) == IF use_kokkos THEN device[r].force_d_ ELSE force_[r]

SubmodelEntitiesOf(r) ==
    IF use_kokkos THEN device[r].contact_faces_d_ \o device[r].contact_nodes_d_
    ELSE contact_faces_[r] \o contact_nodes_[r]

\* the positions of the vertices of every entity
EntityCoords(entities) ==
    [i \in 1..Len(entities) |->
        IF entities[i].entity_type = "NODE" THEN <<entities[i].coord_1>>
        ELSE <<entities[i].coord_1, entities[i].coord_2, entities[i].coord_3>>]

\* the ranks that hold mesh node g, in order
HoldersOf(g) == SetToSortedSeq({q \in Ranks : g \in Range(mesh[q].node_global_ids)})

\* the sum over its holders of component c of mesh node g
SumOverHolders(g, c) ==
    SumSeq([i \in 1..Len(HoldersOf(g)) |->
               At(contact_force[HoldersOf(g)[i]],
                  3 * IndexOf(mesh[HoldersOf(g)[i]].node_global_ids, g) + c)])

\* rank r moves from IDLE to DISPLACEMENTS_APPLIED: the penalty is valid, the
\* submodel is at model_coord + displacement and no force has been touched
AppliedStep(r) ==
    /\ pc'[r] = "displacements_applied"
    /\ penalty_parameter_[r] > 0
    /\ \A i \in 1..Len(node_ids_[r]) : \A c \in 0..2 :
          At(SubmodelCoordOf(r)', 3 * (i - 1) + c)
             = At(model_coord_[r], 3 * (i - 1) + c)
                 + At(displacement'[r], 3 * node_ids_[r][i] + c)
    /\ SubmodelForceOf(r)' = SubmodelForceOf(r)
    /\ contact_force' = contact_force
    /\ use_kokkos => \A k \in DOMAIN contact_force_d[r] : contact_force_d'[r][k] = 0

\* DISPLACEMENTS_APPLIED to FORCES_COMPUTED: the positions stay
EvaluatedStep(r) ==
    /\ pc'[r] = "forces_computed"
    /\ SubmodelCoordOf(r)' = SubmodelCoordOf(r)
    /\ EntityCoords(SubmodelEntitiesOf(r)') = EntityCoords(SubmodelEntitiesOf(r))
    /\ contact_force' = contact_force
    /\ contact_force_d' = contact_force_d

\* FORCES_COMPUTED to gathered: the force of each submodel node is in its row
\* of the vector of the run's mode, and the submodel stays
GatheredStep(r) ==
    /\ pc'[r] = "gathered"
    /\ UNCHANGED submodelVars
    /\ \A i \in 1..Len(node_ids_[r]) : \A c \in 0..2 :
          At(GatheredInto(r)', 3 * node_ids_[r][i] + c) = At(SubmodelForceOf(r), 3 * (i - 1) + c)
    /\ use_kokkos => contact_force' = contact_force

\* the step after the gather: the copy to the host in the data-parallel mode,
\* else the reduction or the return
AfterGatherStep(r) ==
    IF use_kokkos
    THEN /\ pc'[r] = "copied_back"
         /\ contact_force'[r] = contact_force_d[r]
         /\ contact_force_d' = contact_force_d
         /\ UNCHANGED submodelVars
    ELSE pc'[r] = "done"

\* a call returns: on one rank nothing changes; on several, every rank was
\* waiting with its host vector gathered, all return together and every node
\* holds the sum over its holders
ReturnStep(r) ==
    /\ pc[r] = IF use_kokkos THEN "copied_back" ELSE "gathered"
    /\ result' = "ok"
    /\ UNCHANGED submodelVars
    /\ contact_force_d' = contact_force_d
    /\ IF num_ranks = 1 THEN contact_force' = contact_force
       ELSE /\ \A q \in Ranks : pc[q] = pc[r] /\ pc'[q] = "done"
            /\ \A q \in Ranks : \A n \in 1..Len(mesh[q].node_global_ids) : \A c \in 0..2 :
                  At(contact_force'[q], 3 * (n - 1) + c)
                     = SumOverHolders(mesh[q].node_global_ids[n], c)

PhaseOrder(r) ==
    /\ (pc[r] = "done" /\ pc'[r] # "done") => AppliedStep(r)
    /\ (pc'[r] = "displacements_applied" /\ pc[r] # pc'[r]) => pc[r] = "done"
    /\ (pc[r] = "displacements_applied" /\ pc'[r] # pc[r]) => EvaluatedStep(r)
    /\ (pc[r] = "forces_computed" /\ pc'[r] # pc[r]) => GatheredStep(r)
    /\ (pc[r] = "gathered" /\ pc'[r] # pc[r]) => AfterGatherStep(r)
    /\ (pc[r] = "copied_back" /\ pc'[r] # pc[r]) => pc'[r] = "done"
    /\ (pc[r] \in InCall /\ pc'[r] = "done") => ReturnStep(r)

\* C21: a call of ComputeContactForce that passes the penalty check applies
\* the displacements, then evaluates the contact, then gathers the submodel
\* forces into the full-mesh vector, then (data-parallel mode) copies the
\* device vector to the host, then (several ranks) reduces the host vector
\* across the ranks; no phase is skipped or reordered, and every call that
\* has begun returns to the idle state
C21_PhasesInOrderAndBackToIdle ==
    /\ [][\A r \in Ranks : PhaseOrder(r)]_vars
    /\ \A r \in 0..(MaxRanks - 1) : (r \in Ranks /\ pc[r] \in InCall) ~> (r \in Ranks /\ pc[r] = "done")

\* two ranks in the data-parallel mode are back in the idle state and the
\* host vector of one holds a sum that its device vector does not
C21_ReducedAfterTheCopy ==
    /\ num_ranks > 1
    /\ use_kokkos
    /\ last_op = "ComputeContactForce"
    /\ result = "ok"
    /\ \A r \in Ranks : pc[r] = "done"
    /\ \E r \in Ranks : contact_force[r] # contact_force_d[r]

(***************************************************************************)
(* The ring exchange of RemoveInternalSkinFaces.                           *)
(***************************************************************************)
InExchange == {"xbegin", "xsize", "xdata"}

\* face_global_ids of rank q in its call c of RemoveInternalSkinFaces: the
\* skin faces of its primary (c = 1) or secondary blocks, as SkinBlocks left them
BufferOf(q, c) ==
    The({FaceGlobalIdsBuffer(FaceGlobalIdsOfAll(mesh[q],
              IF c = 1 THEN skin.primary_skin_faces ELSE skin.secondary_skin_faces)) :
         skin \in {SkinBoth(mesh[q], max_node_global_id[q])}})

\* the rank r receives from in round s, and the round in which q sends to r
RingSource(r, s) == CHOOSE q \in Ranks : (q + s) % num_ranks = r

RoundOf(q, r) == CHOOSE s \in 1..(num_ranks - 1) : (q + s) % num_ranks = r

\* rank r takes a message: it is the first of the channel from the source of
\* its round and of no other channel
TakesFrom(r, q) ==
    /\ chan[<<q, r>>] # <<>>
    /\ \A p \in Ranks \ {r} :
          chan'[<<p, r>>] = IF p = q THEN Tail(chan[<<p, r>>]) ELSE chan[<<p, r>>]

\* the steps of rank r in the exchange
RingStep(r) ==
    /\ (pc[r] = "xsize" /\ pc'[r] # "xsize") =>
          /\ pc'[r] = "xdata"
          /\ xchg[r].shift \in 1..(num_ranks - 1)
          /\ TakesFrom(r, RingSource(r, xchg[r].shift))
          /\ Head(chan[<<RingSource(r, xchg[r].shift), r>>]).tag = xchg[r].shift
          /\ xchg'[r].recv_size = Len(BufferOf(RingSource(r, xchg[r].shift), call[r]))
          /\ xchg'[r].shift = xchg[r].shift
    /\ (pc[r] = "xdata" /\ (pc'[r] # "xdata" \/ call'[r] # call[r])) =>
          /\ TakesFrom(r, RingSource(r, xchg[r].shift))
          /\ Head(chan[<<RingSource(r, xchg[r].shift), r>>]).tag = xchg[r].shift
          /\ Head(chan[<<RingSource(r, xchg[r].shift), r>>]).data
                = BufferOf(RingSource(r, xchg[r].shift), call[r])
          /\ Len(Head(chan[<<RingSource(r, xchg[r].shift), r>>]).data) = xchg[r].recv_size
          /\ xchg'[r].shift = xchg[r].shift + 1
          /\ IF xchg[r].shift = num_ranks - 1 THEN pc'[r] \in {"xbegin", "build"}
             ELSE pc'[r] = "xsize"
    /\ (pc[r] = "xbegin" /\ pc'[r] # "xbegin") =>
          IF num_ranks = 1 THEN pc'[r] = "build" ELSE pc'[r] = "xsize" /\ xchg'[r].shift = 1
    /\ (pc'[r] = "build" /\ pc[r] # "build") =>
          \A q \in Ranks : chan'[<<q, r>>] = <<>>

\* C23: the ring exchange terminates on every rank for 1..RingRanks ranks and
\* any face buffers: in round shift = 1..N-1 a rank receives the size and then
\* the buffer that rank (self - shift) mod N sent in that round, the buffer
\* with the length the size message announced; the rounds run from 1 to N-1,
\* so that every other rank is the source of exactly one round; no message is
\* left when a rank is through, and every rank in an exchange gets out of it
C23_RingExchangeTerminates ==
    /\ [][\A r \in Ranks : RingStep(r)]_vars
    /\ \A r \in 0..(RingRanks - 1) :
          (r \in Ranks /\ pc[r] \in InExchange) ~> (r \in Ranks /\ pc[r] = "build")

\* three ranks are through both exchanges, one of them with an empty buffer
\* and one having marked a face received from another rank
C23_ThreeRanksThrough ==
    /\ num_ranks = RingRanks
    /\ \A r \in Ranks : pc[r] = "build" /\ xchg[r].shift = num_ranks
    /\ \E r \in Ranks : xchg[r].face_global_ids = <<>>
    /\ \E r \in Ranks : xchg[r].iCountRemovals > 0

\* the messages rank q sends to rank r in a run of CreateContactEntities: the
\* size and the buffer of the primary exchange, then those of the secondary
ExpectedOn(q, r) ==
    The({<<[tag |-> RoundOf(q, r), data |-> <<Len(b[1])>>], [tag |-> RoundOf(q, r), data |-> b[1]],
           [tag |-> RoundOf(q, r), data |-> <<Len(b[2])>>], [tag |-> RoundOf(q, r), data |-> b[2]]>> :
         b \in {<<BufferOf(q, 1), BufferOf(q, 2)>>}})

\* how many sends to the rank of round s a rank at position <<c, p, t>> (call,
\* pc, shift) has posted
SentBy(c, p, t, s) ==
    IF p \in {"start", "skin"} THEN 0
    ELSE 2 * (c - 1)
         + (CASE p = "xsize" -> (IF s < t THEN 2 ELSE IF s = t THEN 1 ELSE 0)
              [] p = "xdata" -> (IF s <= t THEN 2 ELSE 0)
              [] p = "xbegin" -> 0
              [] OTHER -> 2)

\* how many receives from the rank of round s it has completed
ReceivedBy(c, p, t, s) ==
    IF p \in {"start", "skin"} THEN 0
    ELSE 2 * (c - 1)
         + (CASE p = "xsize" -> (IF s < t THEN 2 ELSE 0)
              [] p = "xdata" -> (IF s < t THEN 2 ELSE IF s = t THEN 1 ELSE 0)
              [] p = "xbegin" -> 0
              [] OTHER -> 2)

\* every channel holds the messages its sender has posted and its receiver
\* has not taken, in the order of the calls and rounds of the sender
ChanInOrder ==
    \A q \in Ranks : \A r \in Ranks \ {q} :
       \E taken \in {ReceivedBy(call[r], pc[r], xchg[r].shift, RoundOf(q, r))} :
       \E posted \in {SentBy(call[q], pc[q], xchg[q].shift, RoundOf(q, r))} :
          /\ taken <= posted
          /\ Len(chan[<<q, r>>]) = posted - taken
          /\ taken < posted => chan[<<q, r>>] = SubSeq(ExpectedOn(q, r), taken + 1, posted)

\* the message that the receive rank r is blocked in will take is the one its
\* source posted in its own call of the same number and in the same round:
\* the size for the size handshake, the buffer, of the size received, for
\* the data
TakesOwnExchange(r) ==
    pc[r] \in {"xsize", "xdata"} =>
       \E src \in {RingSource(r, xchg[r].shift)} :
          chan[<<src, r>>] # <<>> =>
             /\ Head(chan[<<src, r>>])
                   = ExpectedOn(src, r)[IF pc[r] = "xsize" THEN 2 * call[r] - 1 ELSE 2 * call[r]]
             /\ pc[r] = "xdata" => xchg[r].recv_size = Len(Head(chan[<<src, r>>]).data)

\* C28: with the two exchanges run in a row and the ranks at different speeds,
\* every size and data message of the primary exchange is taken by the
\* receiver's primary exchange in the same round and every message of the
\* secondary exchange by its secondary exchange: the channels hold the posted
\* messages in the order of the sender's calls, a receive takes the message
\* of the receiver's own call and round, and a buffer is read with its size
C28_ExchangesDoNotMix == ChanInOrder /\ \A r \in Ranks : TakesOwnExchange(r)

\* one rank has begun its secondary exchange while another, still in its
\* primary exchange, has two messages of the first waiting
C28_RanksInDifferentExchanges ==
    \E q \in Ranks : \E r \in Ranks \ {q} :
       /\ call[q] = 2
       /\ call[r] = 1
       /\ pc[r] \in {"xsize", "xdata"}
       /\ Len(chan[<<q, r>>]) = 2
       /\ BufferOf(q, 1) # BufferOf(q, 2)

(***************************************************************************)
(* ParseContactCommand.                                                    *)
(***************************************************************************)
PrimaryKeys == {"primary_blocks", "master_blocks"}

SecondaryKeys == {"secondary_blocks", "slave_blocks"}

Keywords == PrimaryKeys \cup SecondaryKeys \cup {"penalty_parameter"}

\* the position of the first token of the set after position from, or 0
FirstAfter(tokens, from, set) ==
    IF \E i \in (from + 1)..Len(tokens) : tokens[i] \in set
    THEN SetMin({i \in (from + 1)..Len(tokens) : tokens[i] \in set}) ELSE 0

\* the contract on a command whose secondary key is at position s and whose
\* penalty_parameter is at position p
ParsedAs(c, s, p) ==
    /\ ~c.thrown
    /\ c.primary_block_names = SubSeq(c.tokens, 2, s - 1)
    /\ c.secondary_block_names = SubSeq(c.tokens, s + 1, p - 1)
    /\ \A n \in Range(c.primary_block_names) \cup Range(c.secondary_block_names) :
          n # "" /\ n \notin Keywords
    /\ p < Len(c.tokens)
    /\ c.penalty_parameter = AsDouble(c.tokens[p + 1])

\* C30: ParseContactCommand throws if the first token is neither
\* primary_blocks nor master_blocks, if no secondary_blocks / slave_blocks
\* follows, or if no penalty_parameter follows the secondary key; otherwise
\* the primary names are exactly the tokens between the primary and the
\* secondary key, the secondary names exactly those between the secondary key
\* and penalty_parameter, in input order with no empty or keyword token, and
\* the penalty is the value of the token after penalty_parameter
C30_ParserContract ==
    command.called =>
       \E s \in {FirstAfter(command.tokens, 1, SecondaryKeys)} :
       \E p \in {IF s = 0 THEN 0 ELSE FirstAfter(command.tokens, s, {"penalty_parameter"})} :
          IF \/ command.tokens = <<>>
             \/ command.tokens[1] \notin PrimaryKeys
             \/ s = 0
             \/ p = 0
          THEN command.thrown
          ELSE ParsedAs(command, s, p)


(***************************************************************************)
(* The data-parallel path against the sequential loops                     *)
(***************************************************************************)
\* the task that ran in a step of rank r
TaskRun(r) == CHOOSE t \in kernel[r].pending : t \notin kernel'[r].pending

\* a task of rank r ran in the step
TaskStep(r) ==
    /\ kernel[r].pending # {}
    /\ kernel'[r].pending = kernel[r].pending \ {TaskRun(r)}

\* the slots of a flat array of three doubles per node that belong to node i
SlotsOf(i) == {3 * i + 1, 3 * i + 2, 3 * i + 3}

\* two arrays of one length agree outside a set of slots
SameOutside(a, b, slots) ==
    /\ Len(a) = Len(b)
    /\ \A k \in (1..Len(a)) \ slots : a[k] = b[k]

\* what a task may write, and what an entity task may read
TaskFrame(r) ==
    \E t \in {TaskRun(r)} :
       /\ t[1] = "set_coord" =>
             /\ SameOutside(device[r].coord_d_, device'[r].coord_d_, SlotsOf(t[2]))
             /\ [device'[r] EXCEPT !.coord_d_ = device[r].coord_d_] = device[r]
             /\ contact_force_d' = contact_force_d
       /\ t[1] = "get_forces" =>
             /\ SameOutside(contact_force_d[r], contact_force_d'[r],
                            SlotsOf(At(device[r].node_ids_d_, t[2])))
             /\ device' = device
       /\ t[1] \in {"set_nodes", "set_faces"} =>
             /\ \A u \in kernel[r].pending : u[1] # "set_coord"
             /\ device'[r].coord_d_ = device[r].coord_d_
             /\ contact_force_d' = contact_force_d

\* no two tasks of a kernel write the same slot
DisjointWrites(d) ==
    \A i, j \in 1..Len(d.node_ids_d_) : i # j => d.node_ids_d_[i] # d.node_ids_d_[j]

\* the kernels of the last call of rank r have completed
Completed(r, name) ==
    /\ pc[r] = "done"
    /\ last_op = name
    /\ kernel[r].pending = {}

\* the views hold what the host loops of ApplyDisplacements compute
AsSequentialApplyDisplacements(r) ==
    \E coord \in {DisplacedCoord(model_coord_[r], node_ids_[r], displacement[r])} :
       /\ device[r].coord_d_ = coord
       /\ device[r].contact_nodes_d_ = EntitiesAt(contact_nodes_[r], coord)
       /\ device[r].contact_faces_d_ = EntitiesAt(contact_faces_[r], coord)

\* the output holds what the host loop of GetForces computes
AsSequentialGetForces(r) ==
    contact_force_d[r] =
        ForcesInto(InitialContactForce(mesh[r]), node_ids_[r], device[r].force_d_)

ParallelAsSequential ==
    \A r \in Ranks :
       /\ pc[r] = "done" => DisjointWrites(device[r])
       /\ Completed(r, "ApplyDisplacements") => AsSequentialApplyDisplacements(r)
       /\ Completed(r, "GetForces") => AsSequentialGetForces(r)

\* C27: in the data-parallel path a task of the coord kernel writes only
\* slots 3i..3i+2 of coord, a task of GetForces only row node_ids[i] of the
\* output, no two tasks write the same slot, an entity takes its coordinates
\* only when no task of the coord kernel is left, and when the kernels of a
\* call have completed, whatever the order of their tasks, coord, the entity
\* coordinates and the gathered forces are those of the sequential host loops
C27_ParallelAsSequential ==
    [][/\ \A r \in Ranks : TaskStep(r) => TaskFrame(r)
       /\ ParallelAsSequential']_vars

\* witness of C27: both calls have run to completion on a submodel with nodes,
\* node entities and triangles, coord moved and the forces gathered
C27_BothCallsCompleted ==
    /\ pc[0] = "done"
    /\ Completed(0, "GetForces")
    /\ Len(device[0].contact_nodes_d_) > 0
    /\ Len(device[0].contact_faces_d_) > 0
    /\ device[0].coord_d_ # device[0].model_coord_d_
    /\ \E k \in DOMAIN device[0].force_d_ : device[0].force_d_[k] > 1
    /\ contact_force_d[0] # InitialContactForce(mesh[0])
=============================================================================
